---- MODULE Spec2Model ----
(***************************************************************************)
(* Model of the window design tool (TomLake/Window-App).                   *)
(*                                                                         *)
(* The drawing component WindowDrawing (second revision in                 *)
(* client/src/components/WindowDrawing.tsx, lines 213-2201, the one with   *)
(* the quad and door branches) is a pure function of the window record it  *)
(* receives as a prop.  It is modelled by the operator WindowDrawing,      *)
(* which computes the same list of SVG primitives with the same            *)
(* coordinates.  JavaScript numbers are modelled as exact rationals        *)
(* <<numerator, denominator>>; Math.round is round-half-up as in           *)
(* ECMAScript.  Floating-point rounding error (below 1e-12 px for the      *)
(* magnitudes involved) is not modelled.                                   *)
(*                                                                         *)
(* Saving a window is modelled by the form's validation schema             *)
(* (client/src/components/WindowForm.tsx), the window routes of the server *)
(* and the in-memory storage (server/storage.ts, MemStorage).  The routes  *)
(* of windows and projects (server/routes.ts, second revision) are         *)
(* modelled request by request, and step by step between their await       *)
(* points where two requests overlap.  The XML export and import of a      *)
(* project (ProjectImportExport) are modelled on documents of characters.  *)
(***************************************************************************)
EXTENDS Integers, Sequences, FiniteSets, TLC

VARIABLES win, looked, drawing, pc, memo, renders,
          windows, windowIdCounter, response,
          projects, projectIdCounter, createdIds, request, inflight,
          selectedWindow, form, exported, imported

\* the drawing component and its props
drawingVars == <<win, looked, drawing, pc, memo, renders>>

\* the server's storage, the requests being handled, the last request
\* answered and its response
storageVars == <<windows, windowIdCounter, response,
                 projects, projectIdCounter, createdIds, request, inflight>>

\* the page's state: the window chosen for editing, the form's values, the
\* last export and the last import
clientVars == <<selectedWindow, form, exported, imported>>

vars == <<win, looked, drawing, pc, memo, renders,
          windows, windowIdCounter, response,
          projects, projectIdCounter, createdIds, request, inflight,
          selectedWindow, form, exported, imported>>

(***************************************************************************)
(* Exact rational arithmetic for JavaScript numbers.                       *)
(***************************************************************************)
Abs(n) == IF n < 0 THEN -n ELSE n

RECURSIVE GCD(_, _)
GCD(a, b) == IF b = 0 THEN a ELSE GCD(b, a % b)

\* the canonical form of n/d (d # 0): positive denominator, lowest terms
Norm(n, d) ==
  LET s == IF d < 0 THEN -1 ELSE 1
      g == GCD(Abs(n), Abs(d))
  IN  <<(s * n) \div g, (s * d) \div g>>

\* an integer as a rational
I(n) == <<n, 1>>

a ++ b == Norm(a[1] * b[2] + b[1] * a[2], a[2] * b[2])
a -- b == Norm(a[1] * b[2] - b[1] * a[2], a[2] * b[2])
a ** b == Norm(a[1] * b[1], a[2] * b[2])
a // b == Norm(a[1] * b[2], a[2] * b[1])

Lt(a, b)  == a[1] * b[2] < b[1] * a[2]
Leq(a, b) == a[1] * b[2] <= b[1] * a[2]

MinQ(a, b) == IF Leq(a, b) THEN a ELSE b
MaxQ(a, b) == IF Leq(a, b) THEN b ELSE a

\* Math.round: the nearest integer, halves rounded towards +Infinity
MathRound(a) == I((2 * a[1] + a[2]) \div (2 * a[2]))

(***************************************************************************)
(* JavaScript values.  An optional number or boolean is a record [t, v]    *)
(* with t the typeof tag ("undefined" and "null" carry v = 0 / FALSE); an  *)
(* optional string is the string itself, with two reserved values for the  *)
(* absent cases.                                                           *)
(***************************************************************************)
Num(n)     == [t |-> "number", v |-> n]
UndefinedN == [t |-> "undefined", v |-> 0]
NullN      == [t |-> "null", v |-> 0]

Bool(b)    == [t |-> "boolean", v |-> b]
UndefinedB == [t |-> "undefined", v |-> FALSE]
NullB      == [t |-> "null", v |-> FALSE]

UndefinedS == "<undefined>"
NullS      == "<null>"

\* a destructuring default `field = dflt` replaces undefined only
DefaultTo(val, dflt) == IF val.t = "undefined" THEN dflt ELSE val
DefaultToS(val, dflt) == IF val = UndefinedS THEN dflt ELSE val

\* `val ?? dflt` replaces undefined and null
Nullish(val, dflt) == IF val.t \in {"undefined", "null"} THEN dflt ELSE val

\* truthiness of an optional boolean
Truthy(val) == val.t = "boolean" /\ val.v

(***************************************************************************)
(* The type catalog (client/src/lib/windowTypes.ts).  No entry carries a   *)
(* `category` property.                                                    *)
(***************************************************************************)
windowTypes ==
  << [id |-> "single", name |-> "Single Casement",
      minWidth |-> 400, maxWidth |-> 1000, minHeight |-> 500, maxHeight |-> 2000],
     [id |-> "double", name |-> "Double Casement",
      minWidth |-> 800, maxWidth |-> 2000, minHeight |-> 500, maxHeight |-> 2000],
     [id |-> "triple", name |-> "Triple Casement",
      minWidth |-> 1200, maxWidth |-> 2500, minHeight |-> 500, maxHeight |-> 2000],
     [id |-> "quad", name |-> "Quad Casement",
      minWidth |-> 1600, maxWidth |-> 3000, minHeight |-> 500, maxHeight |-> 2000],
     [id |-> "single-transom", name |-> "Single with Transom",
      minWidth |-> 400, maxWidth |-> 1000, minHeight |-> 800, maxHeight |-> 2000],
     [id |-> "double-transom", name |-> "Double with Transom",
      minWidth |-> 800, maxWidth |-> 2000, minHeight |-> 800, maxHeight |-> 2000],
     [id |-> "triple-transom", name |-> "Triple with Transom",
      minWidth |-> 1200, maxWidth |-> 2500, minHeight |-> 800, maxHeight |-> 2000],
     [id |-> "quad-transom", name |-> "Quad with Transom",
      minWidth |-> 1600, maxWidth |-> 3000, minHeight |-> 800, maxHeight |-> 2000],
     [id |-> "patio", name |-> "Patio Doors",
      minWidth |-> 1500, maxWidth |-> 3000, minHeight |-> 2000, maxHeight |-> 2500] >>

CatalogIds == {windowTypes[i].id : i \in DOMAIN windowTypes}

\* Array.prototype.find: the first element satisfying the test, if any
FindIndex(arr, id) ==
  LET hits == {i \in DOMAIN arr : arr[i].id = id}
  IN  IF hits = {} THEN 0 ELSE CHOOSE i \in hits : \A j \in hits : i <= j

\* variant: the fallback is the last catalog entry instead of the first
getWindowTypeById_FallbackLast(id) ==
  LET i == FindIndex(windowTypes, id)
  IN  IF i # 0 THEN windowTypes[i] ELSE windowTypes[Len(windowTypes)]

\* windowTypes.find(type => type.id === id) || windowTypes[0]
getWindowTypeById(id) ==
  LET i == FindIndex(windowTypes, id)
  IN  IF i # 0 THEN windowTypes[i] ELSE windowTypes[1]

\* windowConfig.category === "door": the property is read from the entry
IsDoorCategory(cfg) == "category" \in DOMAIN cfg /\ cfg.category = "door"

(***************************************************************************)
(* SVG primitives.  Every primitive is a record of the same shape; the     *)
(* fields a kind does not use hold neutral values.  cls is the className   *)
(* (or the role named by the JSX comment when the element has none), dash  *)
(* the strokeDasharray, key/idx the React key of a generated element,      *)
(* text/num the content of a text node.                                    *)
(***************************************************************************)
Zero == I(0)

Prim(tag, cls) ==
  [tag |-> tag, cls |-> cls, x |-> Zero, y |-> Zero, width |-> Zero,
   height |-> Zero, points |-> <<>>, dash |-> "", key |-> "", idx |-> 0,
   text |-> "", num |-> 0]

Rect(cls, x, y, w, h) ==
  [Prim("rect", cls) EXCEPT !.x = x, !.y = y, !.width = w, !.height = h]

Circle(cls, cx, cy, r) ==
  [Prim("circle", cls) EXCEPT !.x = cx, !.y = cy, !.width = r, !.height = r]

Line(cls, x1, y1, x2, y2) ==
  [Prim("line", cls) EXCEPT !.points = << <<x1, y1>>, <<x2, y2>> >>]

Polyline(cls, pts, dash) ==
  [Prim("polyline", cls) EXCEPT !.points = pts, !.dash = dash]

Path(cls, pts, dash) ==
  [Prim("path", cls) EXCEPT !.points = pts, !.dash = dash]

Text(cls, x, y, text, num) ==
  [Prim("text", cls) EXCEPT !.x = x, !.y = y, !.text = text, !.num = num]

\* {cond && element}
When(cond, prim) == IF cond THEN <<prim>> ELSE <<>>

(***************************************************************************)
(* WindowDrawing: the values computed before renderWindow is called.       *)
(***************************************************************************)
maxSvgWidth == 300
maxSvgHeight == 240
extraWidthForDimensions == 50
extraHeightForDimensions == 60
extraHeightForLabel == 30

\* variant: without the 0.2 cap
scaleFactor_NoCap(width, height) ==
  LET widthRatio  == IF width # 0 THEN {I(maxSvgWidth) // I(width)} ELSE {}
      heightRatio == IF height # 0 THEN {I(maxSvgHeight) // I(height)} ELSE {}
      cands == widthRatio \cup heightRatio \cup {I(1000)}
  IN  CHOOSE m \in cands : \A c \in cands : Leq(m, c)

\* Math.min(maxSvgWidth / width, maxSvgHeight / height, 0.2); a division by
\* zero yields Infinity, which is never the minimum
scaleFactor(width, height) ==
  LET widthRatio  == IF width # 0 THEN {I(maxSvgWidth) // I(width)} ELSE {}
      heightRatio == IF height # 0 THEN {I(maxSvgHeight) // I(height)} ELSE {}
      cands == widthRatio \cup heightRatio \cup {<<1, 5>>}
  IN  CHOOSE m \in cands : \A c \in cands : Leq(m, c)

\* Math.max(floor, Math.round(mm * scaleFactor))
Thickness(floor, mm, sf) == MaxQ(I(floor), MathRound(I(mm) ** sf))

\* the cell of useMemo(() => ..., [width, height]) in a mounted component:
\* empty before the first render, then the dependencies and the value of
\* the last computation
NoMemo == [set |-> FALSE, deps |-> <<0, 0>>, value |-> Zero]

\* variant: the dependency list is [width] only
useMemo_WidthOnly(cell, deps) ==
  IF cell.set /\ cell.deps[1] = deps[1]
  THEN cell
  ELSE [set |-> TRUE, deps |-> deps, value |-> scaleFactor(deps[1], deps[2])]

\* the cached value is reused when every dependency is unchanged
useMemo(cell, deps) ==
  IF cell.set /\ cell.deps = deps
  THEN cell
  ELSE [set |-> TRUE, deps |-> deps, value |-> scaleFactor(deps[1], deps[2])]

\* the destructured props and the derived lengths, all lengths rational,
\* for the scale factor sf that useMemo returned
LocalsWith(window, sf) ==
  LET frameThickness == Thickness(3, 45, sf)
  IN  [ type |-> window.type,
        width |-> window.width,
        height |-> window.height,
        name |-> DefaultToS(window.name, "Window"),
        openableCasements |-> DefaultToS(window.openableCasements, "left"),
        hasGeorgianBars |-> DefaultTo(window.hasGeorgianBars, Bool(FALSE)),
        georgianBarsHorizontal |-> DefaultTo(window.georgianBarsHorizontal, Num(1)),
        georgianBarsVertical |-> DefaultTo(window.georgianBarsVertical, Num(0)),
        transomHeight |-> DefaultTo(window.transomHeight, Num(400)),
        topCasementsOpenable |-> DefaultToS(window.topCasementsOpenable, "none"),
        scaleFactor |-> sf,
        svgWidth |-> MathRound(I(window.width) ** sf),
        svgHeight |-> MathRound(I(window.height) ** sf),
        windowConfig |-> getWindowTypeById(window.type),
        frameThickness |-> frameThickness,
        mullionThickness |-> Thickness(2, 30, sf),
        frameInset |-> frameThickness ++ I(2),
        innerBorderWidth |-> Thickness(2, 50, sf) ]

\* the locals of a first render, where useMemo computes the scale factor
Locals(window) == LocalsWith(window, scaleFactor(window.width, window.height))

(***************************************************************************)
(* renderGeorgianBars(x, y, width, height)                                 *)
(***************************************************************************)
\* typeof count === 'number' ? count : 1
BarCount(count) == IF count.t = "number" THEN count.v ELSE 1

\* variant: the spacing divides by the count instead of count + 1
HorizontalBars_SpacingByCount(c, x, y, width, height) ==
  LET numHorizontalBars == BarCount(c.georgianBarsHorizontal)
      georgianBarWidth == Thickness(2, 25, c.scaleFactor)
  IN  IF numHorizontalBars > 0
      THEN [i \in 1..numHorizontalBars |->
              [Rect("georgian-bar", x,
                    (y ++ ((height // I(numHorizontalBars)) ** I(i)))
                      -- (georgianBarWidth // I(2)),
                    width, georgianBarWidth)
                 EXCEPT !.key = "h", !.idx = i]]
      ELSE <<>>

HorizontalBars(c, x, y, width, height) ==
  LET numHorizontalBars == BarCount(c.georgianBarsHorizontal)
      georgianBarWidth == Thickness(2, 25, c.scaleFactor)
      horizontalSpacing == height // I(numHorizontalBars + 1)
  IN  IF numHorizontalBars > 0
      THEN [i \in 1..numHorizontalBars |->
              [Rect("georgian-bar", x,
                    (y ++ (horizontalSpacing ** I(i))) -- (georgianBarWidth // I(2)),
                    width, georgianBarWidth)
                 EXCEPT !.key = "h", !.idx = i]]
      ELSE <<>>

VerticalBars(c, x, y, width, height) ==
  LET numVerticalBars == BarCount(c.georgianBarsVertical)
      georgianBarWidth == Thickness(2, 25, c.scaleFactor)
      verticalSpacing == width // I(numVerticalBars + 1)
  IN  IF numVerticalBars > 0
      THEN [i \in 1..numVerticalBars |->
              [Rect("georgian-bar",
                    (x ++ (verticalSpacing ** I(i))) -- (georgianBarWidth // I(2)),
                    y, georgianBarWidth, height)
                 EXCEPT !.key = "v", !.idx = i]]
      ELSE <<>>

renderGeorgianBars(c, x, y, width, height) ==
  IF ~Truthy(c.hasGeorgianBars)
  THEN <<>>
  ELSE HorizontalBars(c, x, y, width, height) \o VerticalBars(c, x, y, width, height)

(***************************************************************************)
(* renderHingeIndicator(x, y, width, height, hingeSide): a dashed polyline *)
(* through three points.                                                   *)
(***************************************************************************)
\* variant: the 'right' branch repeats the points of the 'left' branch
renderHingeIndicator_NoMirror(x, y, width, height, hingeSide) ==
  LET pts ==
        CASE hingeSide \in {"left", "right"} ->
               << <<x ++ width, y>>, <<x, y ++ (height // I(2))>>,
                  <<x ++ width, y ++ height>> >>
          [] hingeSide = "center" ->
               << <<x ++ (width // I(2)), y>>,
                  <<x ++ (width // I(2)), y ++ (height // I(2))>>,
                  <<x ++ (width // I(2)), y ++ height>> >>
          [] OTHER -> <<>>
  IN  Polyline("hinge-indicator", pts, "3,3")

renderHingeIndicator(x, y, width, height, hingeSide) ==
  LET pts ==
        CASE hingeSide = "left" ->
               << <<x ++ width, y>>, <<x, y ++ (height // I(2))>>,
                  <<x ++ width, y ++ height>> >>
          [] hingeSide = "right" ->
               << <<x, y>>, <<x ++ width, y ++ (height // I(2))>>,
                  <<x, y ++ height>> >>
          [] hingeSide = "center" ->
               << <<x ++ (width // I(2)), y>>,
                  <<x ++ (width // I(2)), y ++ (height // I(2))>>,
                  <<x ++ (width // I(2)), y ++ height>> >>
          [] OTHER -> <<>>
  IN  Polyline("hinge-indicator", pts, "3,3")

(***************************************************************************)
(* renderDoor(doorType)                                                    *)
(***************************************************************************)
renderDoor(c, doorType) ==
  LET svgWidth == c.svgWidth
      svgHeight == c.svgHeight
      doorFrameThickness == Thickness(4, 55, c.scaleFactor)
      doorFrameInset == doorFrameThickness ++ I(2)
      innerW == svgWidth -- (doorFrameInset ** I(2))
      innerH == svgHeight -- (doorFrameInset ** I(2))
      doorFrame ==
        << Rect("window-frame", Zero, Zero, svgWidth, svgHeight),
           Rect("door-inner", doorFrameInset, doorFrameInset, innerW, innerH) >>
      handle ==
        Circle("door-handle", (svgWidth -- doorFrameInset) -- I(15),
               svgHeight // I(2), I(4))
      boards ==
        [k \in 1..6 |->
           LET index == k - 1
               panelHeight == innerH // I(6)
           IN  [Rect("door-board", doorFrameInset,
                     doorFrameInset ++ (I(index) ** panelHeight),
                     innerW, panelHeight)
                  EXCEPT !.key = "board", !.idx = index]]
      panels ==
        [k \in 1..6 |->
           LET index == k - 1
               panelWidth == innerW // I(2)
               panelHeight == innerH // I(3)
               column == index % 2
               row == index \div 2
               xPos == doorFrameInset ++ (I(column) ** panelWidth)
               yPos == doorFrameInset ++ (I(row) ** panelHeight)
           IN  [Rect("door-panel", xPos ++ I(4), yPos ++ I(4),
                     panelWidth -- I(8), panelHeight -- I(8))
                  EXCEPT !.key = "panel", !.idx = index]]
  IN  CASE doorType = "door-fully-boarded" ->
             doorFrame \o boards \o <<handle>>
        [] doorType = "door-full-glazed" ->
             doorFrame \o
             << Rect("door-glass", doorFrameInset ++ I(20), doorFrameInset ++ I(20),
                     innerW -- I(40), innerH -- I(40)),
                handle >>
        [] doorType = "door-half-glazed" ->
             doorFrame \o
             << Rect("door-wood", doorFrameInset,
                     doorFrameInset ++ (innerH // I(2)), innerW, innerH // I(2)),
                Rect("door-glass", doorFrameInset ++ I(15), doorFrameInset ++ I(15),
                     innerW -- I(30), (innerH // I(2)) -- I(15)),
                handle >>
        [] doorType = "door-6-panel" ->
             doorFrame \o panels \o <<handle>>
        [] OTHER -> doorFrame

(***************************************************************************)
(* renderWindow: the branches of the switch on windowConfig.id.            *)
(***************************************************************************)
\* the frame and the invisible glass rectangle every window branch starts with
FrameAndGlass(c) ==
  << Rect("window-frame", Zero, Zero, c.svgWidth, c.svgHeight),
     Rect("glass", c.frameInset, c.frameInset,
          c.svgWidth -- (c.frameInset ** I(2)),
          c.svgHeight -- (c.frameInset ** I(2))) >>

\* variant: the bars are rendered once per half of the interior
WholeWindowBars_PerHalf(c) ==
  LET halfW == (c.svgWidth -- (c.frameInset ** I(2))) // I(2)
      h == c.svgHeight -- (c.frameInset ** I(2))
  IN  renderGeorgianBars(c, c.frameInset, c.frameInset, halfW, h)
      \o renderGeorgianBars(c, c.frameInset ++ halfW, c.frameInset, halfW, h)

\* renderGeorgianBars(frameInset, frameInset, svgWidth - frameInset*2,
\*                    svgHeight - frameInset*2): the call every branch makes
WholeWindowBars(c) ==
  renderGeorgianBars(c, c.frameInset, c.frameInset,
                     c.svgWidth -- (c.frameInset ** I(2)),
                     c.svgHeight -- (c.frameInset ** I(2)))

\* variant: the left indicator is drawn unless the value is "right"
caseSingle_UnlessRight(c) ==
  LET svgWidth == c.svgWidth
      svgHeight == c.svgHeight
      frameInset == c.frameInset
      innerBorderWidth == c.innerBorderWidth
      openableCasements == c.openableCasements
      paneW == svgWidth -- (frameInset ** I(2))
      paneH == svgHeight -- (frameInset ** I(2))
  IN  FrameAndGlass(c)
      \o WholeWindowBars(c)
      \o << Rect("window-casement", frameInset -- I(1), frameInset -- I(1),
                 paneW ++ I(2), paneH ++ I(2)),
            Rect("window-casement-interior",
                 frameInset ++ innerBorderWidth, frameInset ++ innerBorderWidth,
                 svgWidth -- ((frameInset ++ innerBorderWidth) ** I(2)),
                 svgHeight -- ((frameInset ++ innerBorderWidth) ** I(2))) >>
      \o When(openableCasements # "right",
              renderHingeIndicator(frameInset, frameInset, paneW, paneH, "left"))
      \o When(openableCasements = "right" \/ openableCasements = "both",
              renderHingeIndicator(frameInset, frameInset, paneW, paneH, "right"))

caseSingle(c) ==
  LET svgWidth == c.svgWidth
      svgHeight == c.svgHeight
      frameInset == c.frameInset
      innerBorderWidth == c.innerBorderWidth
      openableCasements == c.openableCasements
      paneW == svgWidth -- (frameInset ** I(2))
      paneH == svgHeight -- (frameInset ** I(2))
  IN  FrameAndGlass(c)
      \o WholeWindowBars(c)
      \o << Rect("window-casement", frameInset -- I(1), frameInset -- I(1),
                 paneW ++ I(2), paneH ++ I(2)),
            Rect("window-casement-interior",
                 frameInset ++ innerBorderWidth, frameInset ++ innerBorderWidth,
                 svgWidth -- ((frameInset ++ innerBorderWidth) ** I(2)),
                 svgHeight -- ((frameInset ++ innerBorderWidth) ** I(2))) >>
      \o When(openableCasements = "left" \/ openableCasements = "both",
              renderHingeIndicator(frameInset, frameInset, paneW, paneH, "left"))
      \o When(openableCasements = "right" \/ openableCasements = "both",
              renderHingeIndicator(frameInset, frameInset, paneW, paneH, "right"))

\* (transomHeight ?? 400) * scaleFactor
ScaledTransomHeight(c) == I(Nullish(c.transomHeight, Num(400)).v) ** c.scaleFactor

caseSingleTransom(c) ==
  LET svgWidth == c.svgWidth
      svgHeight == c.svgHeight
      frameInset == c.frameInset
      innerBorderWidth == c.innerBorderWidth
      mullionThickness == c.mullionThickness
      openableCasements == c.openableCasements
      topCasementsOpenable == c.topCasementsOpenable
      scaledTransomHeight == ScaledTransomHeight(c)
      paneW == svgWidth -- (frameInset ** I(2))
      lowerY == (frameInset ++ scaledTransomHeight) ++ mullionThickness
      lowerH == ((svgHeight -- frameInset) -- scaledTransomHeight) -- mullionThickness
      topY == (frameInset ++ scaledTransomHeight) -- I(5)
  IN  FrameAndGlass(c)
      \o << Rect("window-mullion", frameInset, frameInset ++ scaledTransomHeight,
                 paneW, mullionThickness),
            Rect("window-casement", frameInset -- I(1), frameInset -- I(1),
                 paneW ++ I(2), scaledTransomHeight ++ I(1)),
            Rect("window-casement-interior",
                 frameInset ++ innerBorderWidth, frameInset ++ innerBorderWidth,
                 svgWidth -- ((frameInset ++ innerBorderWidth) ** I(2)),
                 scaledTransomHeight -- (innerBorderWidth ** I(2))),
            Rect("window-casement", frameInset -- I(1), lowerY -- I(1),
                 paneW ++ I(2),
                 (((svgHeight -- frameInset) -- I(10)) -- scaledTransomHeight)
                   -- mullionThickness),
            Rect("window-casement-interior",
                 frameInset ++ innerBorderWidth, lowerY ++ innerBorderWidth,
                 svgWidth -- ((frameInset ++ innerBorderWidth) ** I(2)),
                 ((((svgHeight -- frameInset) -- scaledTransomHeight) -- I(10))
                   -- mullionThickness) -- (innerBorderWidth ** I(2))) >>
      \o WholeWindowBars(c)
      \o When(topCasementsOpenable = "left" \/ topCasementsOpenable = "both",
              Path("top-hinge-indicator",
                   << <<frameInset, topY>>,
                      <<frameInset ++ (svgWidth // I(4)), frameInset>>,
                      <<(svgWidth // I(2)) -- (frameInset // I(2)), topY>> >>,
                   "5,5"))
      \o When(topCasementsOpenable = "right" \/ topCasementsOpenable = "both",
              Path("top-hinge-indicator",
                   << <<(svgWidth // I(2)) ++ (frameInset // I(2)), topY>>,
                      <<frameInset ++ ((svgWidth ** I(3)) // I(4)), frameInset>>,
                      <<svgWidth -- frameInset, topY>> >>,
                   "5,5"))
      \o When(topCasementsOpenable = "center-left",
              Path("top-hinge-indicator",
                   << <<(svgWidth // I(2)) -- (svgWidth // I(6)), topY>>,
                      <<(svgWidth // I(2)) -- (svgWidth // I(12)), frameInset>>,
                      <<svgWidth // I(2), topY>> >>,
                   "5,5"))
      \o When(topCasementsOpenable = "center-right",
              Path("top-hinge-indicator",
                   << <<svgWidth // I(2), topY>>,
                      <<(svgWidth // I(2)) ++ (svgWidth // I(12)), frameInset>>,
                      <<(svgWidth // I(2)) ++ (svgWidth // I(6)), topY>> >>,
                   "5,5"))
      \o When(openableCasements = "left" \/ openableCasements = "both",
              renderHingeIndicator(frameInset, lowerY, paneW, lowerH, "left"))
      \o When(openableCasements = "right" \/ openableCasements = "both",
              renderHingeIndicator(frameInset, lowerY, paneW, lowerH, "right"))
      \o When(openableCasements = "center",
              renderHingeIndicator(frameInset, lowerY, paneW, lowerH, "center"))

\* variant: any value other than "right" and "none" opens the left casement
caseDouble_DefaultLeft(c) ==
  LET svgWidth == c.svgWidth
      svgHeight == c.svgHeight
      frameInset == c.frameInset
      frameThickness == c.frameThickness
      innerBorderWidth == c.innerBorderWidth
      openableCasements == c.openableCasements
      paneH == svgHeight -- (frameInset ** I(2))
      paneW == ((svgWidth // I(2)) -- frameInset) -- (frameThickness // I(2))
      rightX == (svgWidth // I(2)) ++ (frameThickness // I(2))
      interiorH == svgHeight -- ((frameInset ++ innerBorderWidth) ** I(2))
  IN  FrameAndGlass(c)
      \o WholeWindowBars(c)
      \o << Rect("window-casement", frameInset -- I(1), frameInset -- I(1),
                 paneW ++ I(2), paneH ++ I(2)),
            Rect("window-casement-interior",
                 frameInset ++ innerBorderWidth, frameInset ++ innerBorderWidth,
                 (paneW -- (innerBorderWidth ** I(2))) ++ I(2), interiorH),
            Rect("window-casement", rightX -- I(1), frameInset -- I(1),
                 paneW ++ I(2), paneH ++ I(2)),
            Rect("window-casement-interior",
                 rightX ++ innerBorderWidth, frameInset ++ innerBorderWidth,
                 (paneW -- (innerBorderWidth ** I(2))) ++ I(2), interiorH) >>
      \o When(openableCasements \notin {"right", "none"},
              renderHingeIndicator(frameInset, frameInset, paneW, paneH, "left"))
      \o When(openableCasements = "right" \/ openableCasements = "both",
              renderHingeIndicator(rightX, frameInset, paneW, paneH, "right"))
      \o When(openableCasements = "center",
              Path("center-split",
                   << <<svgWidth // I(2), frameInset>>,
                      <<svgWidth // I(2), svgHeight -- frameInset>> >>,
                   "5,5"))

caseDouble(c) ==
  LET svgWidth == c.svgWidth
      svgHeight == c.svgHeight
      frameInset == c.frameInset
      frameThickness == c.frameThickness
      innerBorderWidth == c.innerBorderWidth
      openableCasements == c.openableCasements
      paneH == svgHeight -- (frameInset ** I(2))
      \* (svgWidth / 2) - frameInset - (frameThickness / 2)
      paneW == ((svgWidth // I(2)) -- frameInset) -- (frameThickness // I(2))
      rightX == (svgWidth // I(2)) ++ (frameThickness // I(2))
      interiorH == svgHeight -- ((frameInset ++ innerBorderWidth) ** I(2))
  IN  FrameAndGlass(c)
      \o WholeWindowBars(c)
      \o << Rect("window-casement", frameInset -- I(1), frameInset -- I(1),
                 paneW ++ I(2), paneH ++ I(2)),
            Rect("window-casement-interior",
                 frameInset ++ innerBorderWidth, frameInset ++ innerBorderWidth,
                 (paneW -- (innerBorderWidth ** I(2))) ++ I(2), interiorH),
            Rect("window-casement", rightX -- I(1), frameInset -- I(1),
                 paneW ++ I(2), paneH ++ I(2)),
            Rect("window-casement-interior",
                 rightX ++ innerBorderWidth, frameInset ++ innerBorderWidth,
                 (paneW -- (innerBorderWidth ** I(2))) ++ I(2), interiorH) >>
      \o When(openableCasements = "left" \/ openableCasements = "both",
              renderHingeIndicator(frameInset, frameInset, paneW, paneH, "left"))
      \o When(openableCasements = "right" \/ openableCasements = "both",
              renderHingeIndicator(rightX, frameInset, paneW, paneH, "right"))
      \o When(openableCasements = "center",
              Path("center-split",
                   << <<svgWidth // I(2), frameInset>>,
                      <<svgWidth // I(2), svgHeight -- frameInset>> >>,
                   "5,5"))

caseDoubleTransom(c) ==
  LET svgWidth == c.svgWidth
      svgHeight == c.svgHeight
      frameInset == c.frameInset
      innerBorderWidth == c.innerBorderWidth
      mullionThickness == c.mullionThickness
      openableCasements == c.openableCasements
      third == svgHeight // I(3)
      \* (svgWidth / 2) - frameInset - (mullionThickness / 2)
      paneW == ((svgWidth // I(2)) -- frameInset) -- (mullionThickness // I(2))
      rightX == (svgWidth // I(2)) ++ (mullionThickness // I(2))
      lowerY == (frameInset ++ third) ++ mullionThickness
      \* svgHeight - frameInset - (svgHeight / 3) - mullionThickness
      lowerH == ((svgHeight -- frameInset) -- third) -- mullionThickness
      hingeH == (((svgHeight ** I(2)) // I(3)) -- frameInset) -- mullionThickness
  IN  FrameAndGlass(c)
      \o << Rect("window-mullion", (svgWidth // I(2)) -- (mullionThickness // I(2)),
                 frameInset, mullionThickness, svgHeight -- (frameInset ** I(2))),
            Rect("window-mullion", frameInset, frameInset ++ third,
                 svgWidth -- (frameInset ** I(2)), mullionThickness),
            Rect("window-casement", frameInset -- I(1), frameInset -- I(1),
                 paneW ++ I(1), third ++ I(1)),
            Rect("window-casement-interior",
                 frameInset ++ innerBorderWidth, frameInset ++ innerBorderWidth,
                 paneW -- (innerBorderWidth ** I(2)),
                 third -- (innerBorderWidth ** I(2))),
            Rect("window-casement", rightX, frameInset -- I(1),
                 paneW ++ I(1), third ++ I(1)),
            Rect("window-casement-interior",
                 rightX ++ innerBorderWidth, frameInset ++ innerBorderWidth,
                 paneW -- (innerBorderWidth ** I(2)),
                 third -- (innerBorderWidth ** I(2))),
            Rect("window-casement", frameInset -- I(1), lowerY -- I(1),
                 paneW ++ I(1), lowerH),
            Rect("window-casement-interior",
                 frameInset ++ innerBorderWidth, lowerY ++ innerBorderWidth,
                 paneW -- (innerBorderWidth ** I(2)),
                 lowerH -- (innerBorderWidth ** I(2))),
            Rect("window-casement", rightX, lowerY -- I(1),
                 paneW ++ I(1), lowerH),
            Rect("window-casement-interior",
                 rightX ++ innerBorderWidth, lowerY ++ innerBorderWidth,
                 paneW -- (innerBorderWidth ** I(2)),
                 lowerH -- (innerBorderWidth ** I(2))) >>
      \o WholeWindowBars(c)
      \o When(openableCasements = "left" \/ openableCasements = "both",
              renderHingeIndicator(frameInset, lowerY, paneW, hingeH, "left"))
      \o When(openableCasements = "right" \/ openableCasements = "both",
              renderHingeIndicator(rightX, lowerY, paneW, hingeH, "right"))

\* the N - 1 vertical mullions of an N-section branch, section width
\* (svgWidth - frameInset * 2) / N
Mullions(c, n) ==
  LET sectionWidth == (c.svgWidth -- (c.frameInset ** I(2))) // I(n)
  IN  [k \in 1..(n - 1) |->
         Rect("window-mullion",
              (c.frameInset ++ (sectionWidth ** I(k))) -- (c.mullionThickness // I(2)),
              c.frameInset, c.mullionThickness,
              c.svgHeight -- (c.frameInset ** I(2)))]

caseTriple(c) ==
  LET svgWidth == c.svgWidth
      svgHeight == c.svgHeight
      frameInset == c.frameInset
      innerBorderWidth == c.innerBorderWidth
      mullionThickness == c.mullionThickness
      openableCasements == c.openableCasements
      effectiveWidth == svgWidth -- (frameInset ** I(2))
      sectionWidth == effectiveWidth // I(3)
      half == mullionThickness // I(2)
      paneH == svgHeight -- (frameInset ** I(2))
      interiorY == frameInset ++ innerBorderWidth
      interiorH == svgHeight -- ((frameInset ++ innerBorderWidth) ** I(2))
      outerW == sectionWidth -- half
      middleW == sectionWidth -- mullionThickness
      middleX == (frameInset ++ sectionWidth) ++ half
      rightX == (frameInset ++ (sectionWidth ** I(2))) ++ half
  IN  FrameAndGlass(c)
      \o WholeWindowBars(c)
      \o << Rect("window-casement", frameInset -- I(1), frameInset -- I(1),
                 outerW ++ I(1), paneH ++ I(2)),
            Rect("window-casement-interior", frameInset ++ innerBorderWidth, interiorY,
                 (outerW -- (innerBorderWidth ** I(2))) ++ I(1), interiorH),
            Rect("window-casement", middleX, frameInset -- I(1),
                 middleW ++ I(2), paneH ++ I(2)),
            Rect("window-casement-interior", middleX ++ innerBorderWidth, interiorY,
                 (middleW -- (innerBorderWidth ** I(2))) ++ I(2), interiorH),
            Rect("window-casement", rightX, frameInset -- I(1),
                 outerW ++ I(1), paneH ++ I(2)),
            Rect("window-casement-interior", rightX ++ innerBorderWidth, interiorY,
                 (outerW -- (innerBorderWidth ** I(2))) ++ I(1), interiorH) >>
      \o Mullions(c, 3)
      \o When(openableCasements = "left" \/ openableCasements = "both",
              renderHingeIndicator(frameInset, frameInset, sectionWidth, paneH, "left"))
      \o When(openableCasements = "right" \/ openableCasements = "both",
              renderHingeIndicator(frameInset ++ (sectionWidth ** I(2)), frameInset,
                                   sectionWidth, paneH, "right"))
      \o When(openableCasements = "center-left",
              renderHingeIndicator(frameInset ++ sectionWidth, frameInset,
                                   sectionWidth, paneH, "left"))
      \o When(openableCasements = "center-right",
              renderHingeIndicator(frameInset ++ sectionWidth, frameInset,
                                   sectionWidth, paneH, "right"))

caseQuad(c) ==
  LET svgWidth == c.svgWidth
      svgHeight == c.svgHeight
      frameInset == c.frameInset
      innerBorderWidth == c.innerBorderWidth
      mullionThickness == c.mullionThickness
      openableCasements == c.openableCasements
      effectiveWidth == svgWidth -- (frameInset ** I(2))
      sectionWidth == effectiveWidth // I(4)
      half == mullionThickness // I(2)
      paneH == svgHeight -- (frameInset ** I(2))
      interiorY == frameInset ++ innerBorderWidth
      interiorH == svgHeight -- ((frameInset ++ innerBorderWidth) ** I(2))
      outerW == sectionWidth -- half
      innerW == sectionWidth -- mullionThickness
      X(k) == (frameInset ++ (sectionWidth ** I(k))) ++ half
  IN  FrameAndGlass(c)
      \o WholeWindowBars(c)
      \o << Rect("window-casement", frameInset -- I(1), frameInset -- I(1),
                 outerW ++ I(1), paneH ++ I(2)),
            Rect("window-casement-interior", frameInset ++ innerBorderWidth, interiorY,
                 (outerW -- (innerBorderWidth ** I(2))) ++ I(1), interiorH),
            Rect("window-casement", X(1), frameInset -- I(1),
                 innerW ++ I(2), paneH ++ I(2)),
            Rect("window-casement-interior", X(1) ++ innerBorderWidth, interiorY,
                 (innerW -- (innerBorderWidth ** I(2))) ++ I(2), interiorH),
            Rect("window-casement", X(2), frameInset -- I(1),
                 innerW ++ I(2), paneH ++ I(2)),
            Rect("window-casement-interior", X(2) ++ innerBorderWidth, interiorY,
                 (innerW -- (innerBorderWidth ** I(2))) ++ I(2), interiorH),
            Rect("window-casement", X(3), frameInset -- I(1),
                 outerW ++ I(1), paneH ++ I(2)),
            Rect("window-casement-interior", X(3) ++ innerBorderWidth, interiorY,
                 (outerW -- (innerBorderWidth ** I(2))) ++ I(1), interiorH) >>
      \o Mullions(c, 4)
      \o When(openableCasements = "left" \/ openableCasements = "both"
                \/ openableCasements = "outer",
              renderHingeIndicator(frameInset, frameInset, outerW, paneH, "left"))
      \o When(openableCasements = "center-left",
              renderHingeIndicator(X(1), frameInset, innerW, paneH, "left"))
      \o When(openableCasements = "center-right",
              renderHingeIndicator(X(2), frameInset, innerW, paneH, "right"))
      \o When(openableCasements = "right" \/ openableCasements = "both"
                \/ openableCasements = "outer",
              renderHingeIndicator(X(3), frameInset, outerW, paneH, "right"))

caseQuadTransom(c) ==
  LET svgWidth == c.svgWidth
      svgHeight == c.svgHeight
      frameInset == c.frameInset
      innerBorderWidth == c.innerBorderWidth
      mullionThickness == c.mullionThickness
      openableCasements == c.openableCasements
      quadScaledTransomHeight == ScaledTransomHeight(c)
      effectiveWidth == svgWidth -- (frameInset ** I(2))
      sectionWidth == effectiveWidth // I(4)
      half == mullionThickness // I(2)
      outerW == sectionWidth -- half
      innerW == sectionWidth -- mullionThickness
      X(k) == (frameInset ++ (sectionWidth ** I(k))) ++ half
      topH == quadScaledTransomHeight -- (innerBorderWidth ** I(2))
      lowerY == (frameInset ++ quadScaledTransomHeight) ++ mullionThickness
      \* svgHeight - frameInset - quadScaledTransomHeight - mullionThickness
      lowerH == ((svgHeight -- frameInset) -- quadScaledTransomHeight) -- mullionThickness
      interiorY == frameInset ++ innerBorderWidth
      lowerInteriorH == (lowerH -- (innerBorderWidth ** I(2))) ++ I(1)
  IN  FrameAndGlass(c)
      \o << Rect("window-mullion", frameInset, frameInset ++ quadScaledTransomHeight,
                 effectiveWidth, mullionThickness) >>
      \o Mullions(c, 4)
      \o << Rect("window-casement", frameInset -- I(1), frameInset -- I(1),
                 outerW ++ I(1), quadScaledTransomHeight ++ I(1)),
            Rect("window-casement-interior", frameInset ++ innerBorderWidth, interiorY,
                 (outerW -- (innerBorderWidth ** I(2))) ++ I(1), topH),
            Rect("window-casement", X(1) -- I(1), frameInset -- I(1),
                 innerW ++ I(2), quadScaledTransomHeight ++ I(1)),
            Rect("window-casement-interior", X(1) ++ innerBorderWidth, interiorY,
                 (innerW -- (innerBorderWidth ** I(2))) ++ I(2), topH),
            Rect("window-casement", X(2) -- I(1), frameInset -- I(1),
                 innerW ++ I(2), quadScaledTransomHeight ++ I(1)),
            Rect("window-casement-interior", X(2) ++ innerBorderWidth, interiorY,
                 (innerW -- (innerBorderWidth ** I(2))) ++ I(2), topH),
            Rect("window-casement", X(3) -- I(1), frameInset -- I(1),
                 outerW ++ I(1), quadScaledTransomHeight ++ I(1)),
            Rect("window-casement-interior", X(3) ++ innerBorderWidth, interiorY,
                 (outerW -- (innerBorderWidth ** I(2))) ++ I(1), topH),
            Rect("window-casement", frameInset -- I(1), lowerY -- I(1),
                 outerW ++ I(1), lowerH ++ I(1)),
            Rect("window-casement-interior",
                 frameInset ++ innerBorderWidth, lowerY ++ innerBorderWidth,
                 (outerW -- (innerBorderWidth ** I(2))) ++ I(1), lowerInteriorH),
            Rect("window-casement", X(1) -- I(1), lowerY -- I(1),
                 innerW ++ I(2), lowerH ++ I(1)),
            Rect("window-casement-interior",
                 X(1) ++ innerBorderWidth, lowerY ++ innerBorderWidth,
                 (innerW -- (innerBorderWidth ** I(2))) ++ I(2), lowerInteriorH),
            Rect("window-casement", X(2) -- I(1), lowerY -- I(1),
                 innerW ++ I(2), lowerH ++ I(1)),
            Rect("window-casement-interior",
                 X(2) ++ innerBorderWidth, lowerY ++ innerBorderWidth,
                 (innerW -- (innerBorderWidth ** I(2))) ++ I(2), lowerInteriorH),
            Rect("window-casement", X(3) -- I(1), lowerY -- I(1),
                 outerW ++ I(1), lowerH ++ I(1)),
            Rect("window-casement-interior",
                 X(3) ++ innerBorderWidth, lowerY ++ innerBorderWidth,
                 (outerW -- (innerBorderWidth ** I(2))) ++ I(1), lowerInteriorH) >>
      \o WholeWindowBars(c)
      \o When(openableCasements = "left" \/ openableCasements = "both"
                \/ openableCasements = "outer",
              renderHingeIndicator(frameInset, lowerY, outerW, lowerH, "left"))
      \o When(openableCasements = "center-left",
              renderHingeIndicator(X(1), lowerY, innerW, lowerH, "left"))
      \o When(openableCasements = "center-right",
              renderHingeIndicator(X(2), lowerY, innerW, lowerH, "right"))
      \o When(openableCasements = "right" \/ openableCasements = "both"
                \/ openableCasements = "outer",
              renderHingeIndicator(X(3), lowerY, outerW, lowerH, "right"))

caseTripleTransom(c) ==
  LET svgWidth == c.svgWidth
      svgHeight == c.svgHeight
      frameInset == c.frameInset
      frameThickness == c.frameThickness
      innerBorderWidth == c.innerBorderWidth
      mullionThickness == c.mullionThickness
      openableCasements == c.openableCasements
      effectiveWidth == svgWidth -- (frameInset ** I(2))
      sectionWidth == effectiveWidth // I(3)
      half == mullionThickness // I(2)
      third == svgHeight // I(3)
      outerW == sectionWidth -- half
      middleW == sectionWidth -- mullionThickness
      middleX == (frameInset ++ sectionWidth) ++ half
      rightX == (frameInset ++ (sectionWidth ** I(2))) ++ half
      interiorY == frameInset ++ innerBorderWidth
      topH == third -- (innerBorderWidth ** I(2))
      \* (svgHeight * 2/3) - frameInset - mullionThickness + 1
      lowerHeight == ((((svgHeight ** I(2)) // I(3)) -- frameInset) -- mullionThickness)
                       ++ I(1)
      lowerY == (frameInset ++ third) ++ mullionThickness
      hingeW == ((svgWidth // I(3)) -- frameInset) -- (frameThickness // I(2))
      hingeH == (((svgHeight ** I(2)) // I(3)) -- frameInset) -- mullionThickness
      centerX == (svgWidth // I(3)) ++ half
      centerW == (svgWidth // I(3)) -- mullionThickness
  IN  FrameAndGlass(c)
      \o Mullions(c, 3)
      \o << Rect("window-mullion", frameInset, frameInset ++ third,
                 effectiveWidth, mullionThickness),
            Rect("window-casement", frameInset -- I(1), frameInset -- I(1),
                 outerW ++ I(1), third ++ I(1)),
            Rect("window-casement-interior", frameInset ++ innerBorderWidth, interiorY,
                 (outerW -- (innerBorderWidth ** I(2))) ++ I(1), topH),
            Rect("window-casement", middleX, frameInset -- I(1),
                 middleW, third ++ I(1)),
            Rect("window-casement-interior", middleX ++ innerBorderWidth, interiorY,
                 middleW -- (innerBorderWidth ** I(2)), topH),
            Rect("window-casement", rightX, frameInset -- I(1),
                 outerW ++ I(1), third ++ I(1)),
            Rect("window-casement-interior", rightX ++ innerBorderWidth, interiorY,
                 (outerW -- (innerBorderWidth ** I(2))) ++ I(1), topH),
            Rect("window-casement", frameInset -- I(1), lowerY -- I(1),
                 outerW ++ I(1), lowerHeight),
            Rect("window-casement-interior",
                 frameInset ++ innerBorderWidth, lowerY ++ innerBorderWidth,
                 (outerW -- (innerBorderWidth ** I(2))) ++ I(1),
                 lowerHeight -- (innerBorderWidth ** I(2))),
            Rect("window-casement", middleX, lowerY -- I(1), middleW, lowerHeight),
            Rect("window-casement-interior",
                 middleX ++ innerBorderWidth, lowerY ++ innerBorderWidth,
                 middleW -- (innerBorderWidth ** I(2)),
                 lowerHeight -- (innerBorderWidth ** I(2))),
            Rect("window-casement", rightX, lowerY -- I(1),
                 outerW ++ I(1), lowerHeight),
            Rect("window-casement-interior",
                 rightX ++ innerBorderWidth, lowerY ++ innerBorderWidth,
                 (outerW -- (innerBorderWidth ** I(2))) ++ I(1),
                 lowerHeight -- (innerBorderWidth ** I(2))) >>
      \o WholeWindowBars(c)
      \o When(openableCasements = "left" \/ openableCasements = "both",
              renderHingeIndicator(frameInset, lowerY, hingeW, hingeH, "left"))
      \o When(openableCasements = "right" \/ openableCasements = "both",
              renderHingeIndicator(((svgWidth // I(3)) ** I(2)) ++ half, lowerY,
                                   hingeW, hingeH, "right"))
      \o When(openableCasements = "center-left",
              renderHingeIndicator(centerX, lowerY, centerW, hingeH, "left"))
      \o When(openableCasements = "center-right",
              renderHingeIndicator(centerX, lowerY, centerW, hingeH, "right"))

caseSlider(c) ==
  LET svgWidth == c.svgWidth
      svgHeight == c.svgHeight
      frameInset == c.frameInset
      innerBorderWidth == c.innerBorderWidth
      mullionThickness == c.mullionThickness
      half == mullionThickness // I(2)
      paneH == svgHeight -- (frameInset ** I(2))
      paneW == ((svgWidth // I(2)) -- frameInset) -- half
      rightX == (svgWidth // I(2)) ++ half
      interiorH == svgHeight -- ((frameInset ++ innerBorderWidth) ** I(2))
      arrowX1 == (svgWidth // I(2)) ++ (frameInset ** <<3, 2>>)
      arrowX2 == svgWidth -- (frameInset ** <<3, 2>>)
      midY == svgHeight // I(2)
  IN  FrameAndGlass(c)
      \o WholeWindowBars(c)
      \o << Rect("window-mullion", (svgWidth // I(2)) -- half, frameInset,
                 mullionThickness, paneH),
            Rect("window-casement", frameInset -- I(1), frameInset -- I(1),
                 paneW ++ I(1), paneH ++ I(2)),
            Rect("window-casement-interior",
                 frameInset ++ innerBorderWidth, frameInset ++ innerBorderWidth,
                 paneW -- innerBorderWidth, interiorH),
            Rect("window-casement", rightX, frameInset -- I(1),
                 paneW ++ I(1), paneH ++ I(2)),
            Rect("window-casement-interior",
                 rightX ++ innerBorderWidth, frameInset ++ innerBorderWidth,
                 paneW -- innerBorderWidth, interiorH),
            Line("slider-arrow", arrowX1, midY, arrowX2, midY),
            Polyline("slider-arrow-head",
                     << <<arrowX1, midY -- I(5)>>, <<arrowX1, midY>>,
                        <<arrowX1, midY ++ I(5)>> >>, ""),
            Polyline("slider-arrow-head",
                     << <<arrowX2, midY -- I(5)>>, <<arrowX2, midY>>,
                        <<arrowX2, midY ++ I(5)>> >>, "") >>

\* variant: non-positive dimensions are rejected before the switch
renderWindow_Guarded(c) ==
  LET id == c.windowConfig.id
  IN  IF c.width <= 0 \/ c.height <= 0
      THEN <<>>
      ELSE IF IsDoorCategory(c.windowConfig)
      THEN renderDoor(c, id)
      ELSE CASE id = "single" -> caseSingle(c)
             [] id = "single-transom" -> caseSingleTransom(c)
             [] id = "double" -> caseDouble(c)
             [] id = "double-transom" -> caseDoubleTransom(c)
             [] id = "triple" -> caseTriple(c)
             [] id = "quad" -> caseQuad(c)
             [] id = "quad-transom" -> caseQuadTransom(c)
             [] id = "triple-transom" -> caseTripleTransom(c)
             [] id = "slider" -> caseSlider(c)
             [] OTHER -> <<>>

\* renderWindow(): door dispatch, then the switch; `default: return null`
renderWindow(c) ==
  LET id == c.windowConfig.id
  IN  IF IsDoorCategory(c.windowConfig)
      THEN renderDoor(c, id)
      ELSE CASE id = "single" -> caseSingle(c)
             [] id = "single-transom" -> caseSingleTransom(c)
             [] id = "double" -> caseDouble(c)
             [] id = "double-transom" -> caseDoubleTransom(c)
             [] id = "triple" -> caseTriple(c)
             [] id = "quad" -> caseQuad(c)
             [] id = "quad-transom" -> caseQuadTransom(c)
             [] id = "triple-transom" -> caseTripleTransom(c)
             [] id = "slider" -> caseSlider(c)
             [] OTHER -> <<>>

(***************************************************************************)
(* The component's output: the <svg> element with its declared size, the   *)
(* window body inside <g transform="translate(0, 10)">, and the dimension  *)
(* lines and labels around it.                                             *)
(***************************************************************************)
Annotations(c) ==
  LET svgWidth == c.svgWidth
      svgHeight == c.svgHeight
  IN  << Line("dimension-line", Zero, svgHeight ++ I(20), svgWidth, svgHeight ++ I(20)),
         Line("dimension-line", Zero, svgHeight ++ I(15), Zero, svgHeight ++ I(25)),
         Line("dimension-line", svgWidth, svgHeight ++ I(15),
              svgWidth, svgHeight ++ I(25)),
         Text("dimension-text", svgWidth // I(2), svgHeight ++ I(35), "mm", c.width),
         Line("dimension-line", svgWidth ++ I(20), I(10),
              svgWidth ++ I(20), svgHeight ++ I(10)),
         Line("dimension-line", svgWidth ++ I(15), I(10), svgWidth ++ I(25), I(10)),
         Line("dimension-line", svgWidth ++ I(15), svgHeight ++ I(10),
              svgWidth ++ I(25), svgHeight ++ I(10)),
         Text("dimension-text", svgWidth ++ I(35), (svgHeight // I(2)) ++ I(10),
              "mm", c.height),
         Text("dimension-text", svgWidth // I(2),
              (svgHeight ++ I(extraHeightForDimensions)) ++ I(10), c.name, 0),
         Text("dimension-text", svgWidth // I(2),
              (svgHeight ++ I(extraHeightForDimensions)) ++ I(22),
              c.windowConfig.name, 0) >>

WindowDrawingWith(window, sf) ==
  LET c == LocalsWith(window, sf)
  IN  [ width |-> c.svgWidth ++ I(extraWidthForDimensions),
        height |-> (c.svgHeight ++ I(extraHeightForDimensions))
                     ++ I(extraHeightForLabel),
        translateY |-> I(10),
        body |-> renderWindow(c),
        annotations |-> Annotations(c) ]

\* the output of a first render
WindowDrawing(window) ==
  WindowDrawingWith(window, scaleFactor(window.width, window.height))

(***************************************************************************)
(* Bounded inputs.                                                         *)
(***************************************************************************)
MaxBars == 2

TypeIds == CatalogIds \cup {"slider", "nonexistent-type"}

\* <<width, height>> in mm: scale 1/5, 1/6 (width-bound), 2/15 and 4/35
\* (height-bound)
Dims == {<<900, 800>>, <<1800, 1200>>, <<1500, 1800>>, <<2000, 2100>>}

OpeningValues ==
  {"left", "right", "both", "none", "center-left", "center-right",
   "center", "outer", "bogus", UndefinedS, NullS}

TopOpeningValues ==
  {"left", "right", "both", "none", "center-left", "center-right",
   "center", "bogus", UndefinedS}

BarCounts == {UndefinedN, NullN} \cup {Num(n) : n \in 0..MaxBars}

BarFlags == {Bool(TRUE), Bool(FALSE), UndefinedB}

TransomHeights == {UndefinedN, NullN, Num(200), Num(500), Num(1000)}

Window(type, dim, name, oc, tc, flag, h, v, th) ==
  [ type |-> type, width |-> dim[1], height |-> dim[2], name |-> name,
    openableCasements |-> oc, topCasementsOpenable |-> tc,
    hasGeorgianBars |-> flag, georgianBarsHorizontal |-> h,
    georgianBarsVertical |-> v, transomHeight |-> th ]

\* every combination of the opening fields, bars off and on
OpeningInputs ==
  { Window(t, d, "Kitchen", oc, tc, bars[1], bars[2], bars[3], Num(500)) :
      t \in TypeIds, d \in Dims, oc \in OpeningValues, tc \in TopOpeningValues,
      bars \in {<<Bool(FALSE), Num(1), Num(1)>>, <<Bool(TRUE), Num(2), Num(1)>>} }

\* every combination of the bar fields
BarInputs ==
  { Window(t, d, "Kitchen", "left", "none", f, h, v, Num(500)) :
      t \in TypeIds, d \in Dims, f \in BarFlags, h \in BarCounts, v \in BarCounts }

\* every transom height, with and without a name
TransomInputs ==
  { Window(t, d, n, oc, tc, Bool(FALSE), Num(1), Num(1), th) :
      t \in TypeIds, d \in Dims, n \in {"Kitchen", UndefinedS},
      oc \in {"none", "both"}, tc \in {"none", "left"}, th \in TransomHeights }

\* the door ids the drawing component has a branch for (renderDoor), with
\* every combination of the opening fields
DoorTypeIds ==
  {"door-fully-boarded", "door-full-glazed", "door-half-glazed", "door-6-panel"}

DoorInputs ==
  { Window(t, d, "Front door", oc, tc, Bool(FALSE), Num(1), Num(1), Num(500)) :
      t \in DoorTypeIds, d \in Dims, oc \in OpeningValues, tc \in TopOpeningValues }

Inputs == OpeningInputs \cup BarInputs \cup TransomInputs \cup DoorInputs

\* the number of renders of one mounted component
MaxRenders == 3

\* records sharing a width or a height, with different scale factors
RerenderInputs ==
  { Window(t, d, "Kitchen", "left", "none", Bool(TRUE), Num(1), Num(1), Num(400)) :
      t \in {"double", "single-transom"},
      d \in {<<900, 800>>, <<900, 1800>>, <<1800, 1800>>, <<1800, 800>>} }

\* widths and heights in mm around the thresholds of the scale factor
\* (1500 and 1200 mm at the 0.2 cap), at the ends of the range the form
\* accepts (300 and 3000), beyond it, and non-positive
Widths == {-600, 0, 1, 300, 750, 1499, 1500, 1501, 3000, 4000}
Heights == {-500, 0, 1, 300, 600, 1199, 1200, 1201, 3000, 5000}

\* every pair of dimensions for every type with a branch, at the two ends
\* of the transom heights the form accepts
DimInputs ==
  { Window(t, <<w, h>>, "Kitchen", "both", "both", Bool(TRUE), Num(2), Num(1), th) :
      t \in CatalogIds \cup {"slider"}, w \in Widths, h \in Heights,
      th \in {Num(200), Num(1000)} }

\* every catalog type at the four corners of its own range of dimensions,
\* with the least and the greatest transom height the form accepts
ValidInputs ==
  { Window(windowTypes[i].id, <<w, h>>, "Kitchen", "both", "both", Bool(TRUE),
           Num(2), Num(1), th) :
      i \in DOMAIN windowTypes,
      w \in {windowTypes[j].minWidth : j \in DOMAIN windowTypes}
           \cup {windowTypes[j].maxWidth : j \in DOMAIN windowTypes},
      h \in {windowTypes[j].minHeight : j \in DOMAIN windowTypes}
           \cup {windowTypes[j].maxHeight : j \in DOMAIN windowTypes},
      th \in {Num(200), Num(1000)} }

(***************************************************************************)
(* Saving windows: the form's validation (WindowForm.tsx), the routes      *)
(* POST and PUT /api/windows, and the in-memory storage (MemStorage).  A   *)
(* request body is a record of optional values; a stored window holds the  *)
(* validated values.                                                       *)
(***************************************************************************)
\* the largest id the storage hands out
MaxWindowId == 3

Present(str) == str \notin {UndefinedS, NullS}

\* createInsertSchema(windows).omit({ id: true }): the notNull columns are
\* required, integers for the integer columns
insertWindowSchema(body) ==
  /\ body.projectId.t = "number"
  /\ Present(body.name)
  /\ Present(body.type)
  /\ body.width.t = "number"
  /\ body.height.t = "number"
  /\ Present(body.glassType)

\* windowFormSchema: type and glassType non-empty, width and height numbers
\* in 300..3000, whatever the type
windowFormSchema(values) ==
  /\ Present(values.type) /\ values.type # ""
  /\ values.width.t = "number"
  /\ 300 <= values.width.v /\ values.width.v <= 3000
  /\ values.height.t = "number"
  /\ 300 <= values.height.v /\ values.height.v <= 3000
  /\ Present(values.glassType) /\ values.glassType # ""

\* the parsed form values: projectId and name take their defaults
FormOutput(values) ==
  [values EXCEPT !.projectId = DefaultTo(@, Num(1)),
                 !.name = DefaultToS(@, "New Window")]

\* the JSON body sent for the form values (the id travels in the URL)
BodyOf(data) ==
  [projectId |-> data.projectId, name |-> data.name, type |-> data.type,
   width |-> data.width, height |-> data.height, glassType |-> data.glassType]

\* const window = { ...insertWindow, id }
StoredWindow(id, body) ==
  [id |-> id, projectId |-> body.projectId.v, name |-> body.name,
   type |-> body.type, width |-> body.width.v, height |-> body.height.v,
   glassType |-> body.glassType]

\* the two sample windows the MemStorage constructor creates
SampleWindows ==
  (1 :> [id |-> 1, projectId |-> 1, name |-> "Bedroom Window", type |-> "double",
         width |-> 1110, height |-> 1130, glassType |-> "Clear"])
  @@ (2 :> [id |-> 2, projectId |-> 1, name |-> "Kitchen Window", type |-> "triple",
            width |-> 1470, height |-> 970, glassType |-> "Clear"])

\* the default project the MemStorage constructor creates (the time stamps
\* createdAt and updatedAt are left out of project records)
DefaultProjects ==
  1 :> [id |-> 1, userId |-> 1, name |-> "Untitled Project",
        description |-> UndefinedS]

NoResponse == [status |-> 0, id |-> 0]

NoRequest == [method |-> "", path |-> "", param |-> <<>>, body |-> [none |-> TRUE]]

\* no request is between two of its await points
NoInflight == [h \in {} |-> 0]

\* the storage after construction
InitStorage ==
  /\ windows = SampleWindows
  /\ windowIdCounter = Len(<<1, 2>>) + 1
  /\ response = NoResponse
  /\ projects = DefaultProjects
  /\ projectIdCounter = Len(<<1>>) + 1
  /\ createdIds = <<1, 2>>
  /\ request = NoRequest
  /\ inflight = NoInflight

\* the storage object: its maps and counters, and the ids createWindow has
\* returned so far, oldest first
Store ==
  [windows |-> windows, windowIdCounter |-> windowIdCounter,
   projects |-> projects, projectIdCounter |-> projectIdCounter,
   createdIds |-> createdIds]

\* Map.prototype.set and Map.prototype.delete
MapSet(map, key, value) ==
  [k \in DOMAIN map \cup {key} |-> IF k = key THEN value ELSE map[k]]

MapDelete(map, keys) == [k \in DOMAIN map \ keys |-> map[k]]

\* createWindow without the increment of the counter
createWindow_NoIncrement(s, insertWindow) ==
  LET id == s.windowIdCounter
  IN  [s EXCEPT !.windows = MapSet(s.windows, id, StoredWindow(id, insertWindow)),
                !.createdIds = Append(s.createdIds, id)]

\* MemStorage.createWindow: const id = this.windowIdCounter++
createWindow(s, insertWindow) ==
  LET id == s.windowIdCounter
  IN  [s EXCEPT !.windowIdCounter = id + 1,
                !.windows = MapSet(s.windows, id, StoredWindow(id, insertWindow)),
                !.createdIds = Append(s.createdIds, id)]

\* MemStorage.updateWindow: this.windows.set(window.id, window)
updateWindow(s, window) ==
  [s EXCEPT !.windows = MapSet(s.windows, window.id, window)]

\* MemStorage.deleteWindow
deleteWindow(s, id) == [s EXCEPT !.windows = MapDelete(s.windows, {id})]

\* MemStorage.createProject
createProject(s, insertProject) ==
  LET id == s.projectIdCounter
  IN  [s EXCEPT !.projectIdCounter = id + 1,
                !.projects = MapSet(s.projects, id,
                               [id |-> id, userId |-> insertProject.userId,
                                name |-> insertProject.name,
                                description |-> insertProject.description])]

\* MemStorage.updateProject
updateProject(s, project) ==
  [s EXCEPT !.projects = MapSet(s.projects, project.id, project)]

\* deleteProject that removes the project and leaves its windows
deleteProject_KeepWindows(s, id) ==
  [s EXCEPT !.projects = MapDelete(s.projects, {id})]

\* MemStorage.deleteProject: the project, then every window of the project
deleteProject(s, id) ==
  [s EXCEPT !.projects = MapDelete(s.projects, {id}),
            !.windows = MapDelete(s.windows,
                          {k \in DOMAIN s.windows : s.windows[k].projectId = id})]

(***************************************************************************)
(* The routes.  A path parameter is a string, modelled as a sequence of    *)
(* characters; parseInt reads its leading integer.                         *)
(***************************************************************************)
DigitChars == <<"0", "1", "2", "3", "4", "5", "6", "7", "8", "9">>

IsDigit(ch) == \E i \in DOMAIN DigitChars : DigitChars[i] = ch

DigitValue(ch) == (CHOOSE i \in DOMAIN DigitChars : DigitChars[i] = ch) - 1

NaN == [t |-> "NaN", v |-> 0]

\* the characters of str from position i on
Drop(str, i) == SubSeq(str, i, Len(str))

\* the value of the longest prefix of digits of str, continuing from acc;
\* seen tells whether a digit has been read
RECURSIVE ParseDigits(_, _, _)
ParseDigits(str, acc, seen) ==
  IF str # <<>> /\ IsDigit(Head(str))
  THEN ParseDigits(Tail(str), 10 * acc + DigitValue(Head(str)), TRUE)
  ELSE IF seen THEN Num(acc) ELSE NaN

RECURSIVE TrimStart(_)
TrimStart(str) ==
  IF str # <<>> /\ Head(str) = " " THEN TrimStart(Tail(str)) ELSE str

\* parseInt(str, 10), and parseInt(str) for a str that has no 0x prefix:
\* leading white space is skipped, a sign is read, then digits as far as
\* they go; NaN when there is no digit
parseInt(str) ==
  LET s == TrimStart(str)
      neg == s # <<>> /\ Head(s) = "-"
      rest == IF s # <<>> /\ Head(s) \in {"-", "+"} THEN Tail(s) ELSE s
      n == ParseDigits(rest, 0, FALSE)
  IN  IF n.t = "number" /\ neg THEN Num(0 - n.v) ELSE n

\* String(n) of an integer n
RECURSIVE NaturalToString(_)
NaturalToString(n) ==
  IF n < 10 THEN <<DigitChars[n + 1]>>
  ELSE Append(NaturalToString(n \div 10), DigitChars[(n % 10) + 1])

NumberToString(n) ==
  IF n < 0 THEN <<"-">> \o NaturalToString(0 - n) ELSE NaturalToString(n)

\* the storage and the response a handler leaves behind
Answer(s, status, id) == [store |-> s, response |-> [status |-> status, id |-> id]]

\* { id, ...req.body }: an id of the body wins over the path's
UpdateData_BodyIdWins(id, body) == body @@ ("id" :> Num(id))

\* { ...req.body, id }: the parsed path id replaces an id of the body
UpdateData(id, body) == ("id" :> Num(id)) @@ body

\* app.get('/api/windows/:id')
GetWindow(param) ==
  LET id == parseInt(param)
  IN  IF id.t = "NaN" THEN Answer(Store, 400, 0)
      ELSE IF id.v \notin DOMAIN windows THEN Answer(Store, 404, 0)
      ELSE Answer(Store, 200, windows[id.v].id)

\* app.post('/api/windows'): 400 for an invalid body, else createWindow
\* stores the body under the next id
PostWindows(body) ==
  IF ~insertWindowSchema(body)
  THEN Answer(Store, 400, 0)
  ELSE Answer(createWindow(Store, body), 201, windowIdCounter)

\* app.put('/api/windows/:id'): 400 for a path id that is not a number and
\* for an invalid body, 404 for an unknown id, else updateWindow replaces
\* the stored window
PutWindows(param, body) ==
  LET id == parseInt(param)
  IN  IF id.t = "NaN" THEN Answer(Store, 400, 0)
      ELSE LET data == UpdateData(id.v, body)
           IN  IF ~(insertWindowSchema(data) /\ data.id.t = "number")
               THEN Answer(Store, 400, 0)
               ELSE IF id.v \notin DOMAIN windows
               THEN Answer(Store, 404, 0)
               ELSE Answer(updateWindow(Store, StoredWindow(data.id.v, data)),
                           200, data.id.v)

\* a delete route that does not look the window up first
DeleteWindows_NoLookup(param) ==
  LET id == parseInt(param)
  IN  IF id.t = "NaN" THEN Answer(Store, 400, 0)
      ELSE Answer(deleteWindow(Store, id.v), 204, 0)

\* app.delete('/api/windows/:id')
DeleteWindows(param) ==
  LET id == parseInt(param)
  IN  IF id.t = "NaN" THEN Answer(Store, 400, 0)
      ELSE IF id.v \notin DOMAIN windows THEN Answer(Store, 404, 0)
      ELSE Answer(deleteWindow(Store, id.v), 204, 0)

\* app.get('/api/projects/:id')
GetProject(param) ==
  LET id == parseInt(param)
  IN  IF id.t = "NaN" THEN Answer(Store, 400, 0)
      ELSE IF id.v \notin DOMAIN projects THEN Answer(Store, 404, 0)
      ELSE Answer(Store, 200, projects[id.v].id)

\* !name
NoName(body) == body.name \in {UndefinedS, NullS, ""}

\* app.post('/api/projects'): const { name, description = '' } = req.body
PostProjects(body) ==
  IF NoName(body) THEN Answer(Store, 400, 0)
  ELSE Answer(createProject(Store, [userId |-> 1, name |-> body.name,
                                    description |-> DefaultToS(body.description, "")]),
              201, projectIdCounter)

\* app.put('/api/projects/:id')
PutProjects(param, body) ==
  LET id == parseInt(param)
  IN  IF id.t = "NaN" THEN Answer(Store, 400, 0)
      ELSE IF NoName(body) THEN Answer(Store, 400, 0)
      ELSE IF id.v \notin DOMAIN projects THEN Answer(Store, 404, 0)
      ELSE LET existingProject == projects[id.v]
           IN  Answer(updateProject(Store,
                        [existingProject EXCEPT
                           !.name = body.name,
                           !.description =
                             IF body.description \in {UndefinedS, NullS, ""}
                             THEN existingProject.description
                             ELSE body.description]),
                      200, id.v)

\* app.delete('/api/projects/:id')
DeleteProjects(param) ==
  LET id == parseInt(param)
  IN  IF id.t = "NaN" THEN Answer(Store, 400, 0)
      ELSE IF id.v \notin DOMAIN projects THEN Answer(Store, 404, 0)
      ELSE Answer(deleteProject(Store, id.v), 204, 0)

\* a request: its method, the route's path, the path parameter and the body
Request(method, path, param, body) ==
  [method |-> method, path |-> path, param |-> param, body |-> body]

NoBody == [none |-> TRUE]

\* the storage takes the values of the record s
Stored(s) ==
  /\ windows' = s.windows
  /\ windowIdCounter' = s.windowIdCounter
  /\ projects' = s.projects
  /\ projectIdCounter' = s.projectIdCounter
  /\ createdIds' = s.createdIds

\* the request req has been handled: the storage and the response are those
\* of the handler's result
Handled(req, result) ==
  /\ Stored(result.store)
  /\ response' = result.response
  /\ request' = req
  /\ UNCHANGED inflight

\* request bodies: two types, an absent width, widths below, inside and above
\* the range of "single"
Bodies ==
  { [projectId |-> Num(1), name |-> "Hall", type |-> t, width |-> w,
     height |-> Num(900), glassType |-> "Clear"] :
      t \in {"single", "quad"},
      w \in {UndefinedN, Num(200), Num(900), Num(3000)} }

\* form values: a new window (no id) or window 1 being edited
FormValues ==
  { [id |-> id, projectId |-> UndefinedN, name |-> "Hall", type |-> t,
     width |-> w, height |-> Num(900), glassType |-> "Clear"] :
      id \in {UndefinedN, Num(1)}, t \in {"single", ""},
      w \in {Num(200), Num(900), Num(3000)} }

\* handleSaveWindow: PUT to the window's own URL when the values carry an
\* id, else POST for the current project (project 1 when none is selected)
handleSaveWindow(data) ==
  IF data.id.t = "number" /\ data.id.v # 0
  THEN Request("PUT", "/api/windows/:id", NumberToString(data.id.v),
               ("id" :> data.id) @@ BodyOf(data))
  ELSE Request("POST", "/api/windows", <<>>,
               [BodyOf(data) EXCEPT !.projectId = Num(1)])

\* the route of a request applied to it
Route(req) ==
  CASE req.method = "GET" /\ req.path = "/api/windows/:id" -> GetWindow(req.param)
    [] req.method = "POST" /\ req.path = "/api/windows" -> PostWindows(req.body)
    [] req.method = "PUT" /\ req.path = "/api/windows/:id" -> PutWindows(req.param, req.body)
    [] req.method = "DELETE" /\ req.path = "/api/windows/:id" -> DeleteWindows(req.param)
    [] req.method = "GET" /\ req.path = "/api/projects/:id" -> GetProject(req.param)
    [] req.method = "POST" /\ req.path = "/api/projects" -> PostProjects(req.body)
    [] req.method = "PUT" /\ req.path = "/api/projects/:id" -> PutProjects(req.param, req.body)
    [] req.method = "DELETE" /\ req.path = "/api/projects/:id" -> DeleteProjects(req.param)

\* form.handleSubmit(onSave): the resolver validates, then handleSaveWindow
\* sends the request
SubmitForm ==
  \E values \in FormValues :
    /\ windowFormSchema(values)
    /\ LET req == handleSaveWindow(FormOutput(values))
       IN  /\ req.method = "POST" => windowIdCounter <= MaxWindowId
           /\ Handled(req, Route(req))
    /\ UNCHANGED drawingVars
    /\ UNCHANGED clientVars

\* a client other than the form posts a body
ApiPost ==
  \E body \in Bodies :
    /\ windowIdCounter <= MaxWindowId
    /\ Handled(Request("POST", "/api/windows", <<>>, body), PostWindows(body))
    /\ UNCHANGED drawingVars
    /\ UNCHANGED clientVars

\* a client other than the form puts a body
ApiPut ==
  \E id \in 1..MaxWindowId, body \in Bodies :
    /\ Handled(Request("PUT", "/api/windows/:id", NumberToString(id), body),
               PutWindows(NumberToString(id), body))
    /\ UNCHANGED drawingVars
    /\ UNCHANGED clientVars

(***************************************************************************)
(* The page (Home.tsx) and its form (WindowForm.tsx): the window selected  *)
(* for editing and the values the form holds.                              *)
(***************************************************************************)
\* useState<Window | null>(null)
NullWindow == [t |-> "null", v |-> 0]

\* the form's defaultValues, as the fields that are saved (no id)
defaultFormValues ==
  [id |-> UndefinedN, projectId |-> Num(1), name |-> "", type |-> "single",
   width |-> Num(1100), height |-> Num(1100), glassType |-> "Clear"]

\* nothing exported or imported yet
NoExport == <<>>

NoImport == [windows |-> <<>>, projectName |-> <<>>]

\* the page after its first render
InitClient ==
  /\ selectedWindow = NullWindow
  /\ form = defaultFormValues
  /\ exported = NoExport
  /\ imported = NoImport

(***************************************************************************)
(* The state machine: a window record arrives as a prop; the catalog       *)
(* lookup and the render are applied to it.                                *)
(***************************************************************************)
NoEntry ==
  [id |-> "", name |-> "", minWidth |-> 0, maxWidth |-> 0,
   minHeight |-> 0, maxHeight |-> 0]

NoDrawing ==
  [width |-> Zero, height |-> Zero, translateY |-> Zero,
   body |-> <<>>, annotations |-> <<>>]

Init ==
  /\ win \in Inputs
  /\ looked = NoEntry
  /\ drawing = NoDrawing
  /\ pc = "props"
  /\ memo = NoMemo
  /\ renders = <<>>
  /\ InitStorage
  /\ InitClient

\* getWindowTypeById(win.type)
Lookup ==
  /\ pc = "props"
  /\ looked' = getWindowTypeById(win.type)
  /\ pc' = "looked"
  /\ UNCHANGED <<win, drawing, memo, renders>>
  /\ UNCHANGED storageVars
  /\ UNCHANGED clientVars

\* <WindowDrawing window={win} />: a render of the mounted component with
\* the current props; the output joins the list of renders
Render ==
  /\ pc \in {"props", "looked"}
  /\ memo' = useMemo(memo, <<win.width, win.height>>)
  /\ drawing' = WindowDrawingWith(win, memo'.value)
  /\ renders' = Append(renders, [props |-> win, output |-> drawing'])
  /\ pc' = "rendered"
  /\ UNCHANGED <<win, looked>>
  /\ UNCHANGED storageVars
  /\ UNCHANGED clientVars

\* the parent passes a new window record to the mounted component
SetProps ==
  /\ pc = "rendered"
  /\ Len(renders) < MaxRenders
  /\ win' \in RerenderInputs
  /\ looked' = NoEntry
  /\ pc' = "props"
  /\ UNCHANGED <<drawing, memo, renders>>
  /\ UNCHANGED storageVars
  /\ UNCHANGED clientVars

Next == Lookup \/ Render

Spec == Init /\ [][Next]_vars

\* the same component applied to the records of DimInputs
InitDim ==
  /\ win \in DimInputs
  /\ looked = NoEntry
  /\ drawing = NoDrawing
  /\ pc = "props"
  /\ memo = NoMemo
  /\ renders = <<>>
  /\ InitStorage
  /\ InitClient

SpecDim == InitDim /\ [][Next]_vars

\* the same component applied to the records of ValidInputs that lie in
\* the range of their type
InitValid ==
  /\ win \in {w \in ValidInputs :
               /\ windowTypes[FindIndex(windowTypes, w.type)].minWidth <= w.width
               /\ w.width <= windowTypes[FindIndex(windowTypes, w.type)].maxWidth
               /\ windowTypes[FindIndex(windowTypes, w.type)].minHeight <= w.height
               /\ w.height <= windowTypes[FindIndex(windowTypes, w.type)].maxHeight}
  /\ looked = NoEntry
  /\ drawing = NoDrawing
  /\ pc = "props"
  /\ memo = NoMemo
  /\ renders = <<>>
  /\ InitStorage
  /\ InitClient

SpecValid == InitValid /\ [][Next]_vars

\* a mounted component rendered again and again with changing props
InitRerender ==
  /\ win \in RerenderInputs
  /\ looked = NoEntry
  /\ drawing = NoDrawing
  /\ pc = "props"
  /\ memo = NoMemo
  /\ renders = <<>>
  /\ InitStorage
  /\ InitClient

NextRerender == Lookup \/ Render \/ SetProps

SpecRerender == InitRerender /\ [][NextRerender]_vars

\* the values the form starts with
defaultValues ==
  Window("single", <<1100, 1100>>, "", "left", "none", Bool(FALSE),
         Num(1), Num(1), Num(400))

\* windows being saved through the form and through the routes
InitSave ==
  /\ win = defaultValues
  /\ looked = NoEntry
  /\ drawing = NoDrawing
  /\ pc = "props"
  /\ memo = NoMemo
  /\ renders = <<>>
  /\ InitStorage
  /\ InitClient

NextSave == SubmitForm \/ ApiPost \/ ApiPut

SpecSave == InitSave /\ [][NextSave]_vars

(***************************************************************************)
(* The storage and the routes on their own: calls of the MemStorage        *)
(* methods in any order, and requests to the routes of windows and         *)
(* projects, each handled before the next one starts.                      *)
(***************************************************************************)
\* the largest id the storage hands out to a project
MaxProjectId == 2

\* window bodies: for project 2, which exists at some times and not at
\* others, and without the required projectId
StoreBodies ==
  { [projectId |-> p, name |-> "Hall", type |-> "single", width |-> Num(900),
     height |-> Num(900), glassType |-> "Clear"] :
      p \in {Num(2), UndefinedN} }

\* bodies of PUT: without an id, and carrying the id of window 2
PutBodies ==
  StoreBodies \cup { ("id" :> Num(2)) @@ b : b \in StoreBodies }

\* the windows the storage methods are called with
StoreWindows ==
  { StoredWindow(id, b) : id \in 1..MaxWindowId + 1,
                          b \in {x \in StoreBodies : insertWindowSchema(x)} }

\* project bodies: with a name, and with an empty one
ProjectBodies ==
  { [name |-> "Loft", description |-> "plan"],
    [name |-> "", description |-> UndefinedS] }

\* path parameters: ids that records have at some time and not at others, a
\* string that is not a number and one that only starts with a number
Params == { <<"1">>, <<"3">>, <<"a">>, <<"2", "x">> }

\* a caller of the storage object; no request is answered
Called(s) ==
  /\ Stored(s)
  /\ response' = NoResponse
  /\ request' = NoRequest
  /\ UNCHANGED inflight
  /\ UNCHANGED drawingVars
  /\ UNCHANGED clientVars

StorageCreateWindow ==
  \E b \in StoreBodies :
    /\ insertWindowSchema(b)
    /\ windowIdCounter <= MaxWindowId
    /\ Called(createWindow(Store, b))

StorageUpdateWindow ==
  \E w \in StoreWindows :
    /\ Called(updateWindow(Store, w))

StorageDeleteWindow ==
  \E id \in 1..MaxWindowId + 1 :
    /\ Called(deleteWindow(Store, id))

StorageCreateProject ==
  \E body \in ProjectBodies :
    /\ projectIdCounter <= MaxProjectId
    /\ ~NoName(body)
    /\ Called(createProject(Store, [userId |-> 1, name |-> body.name,
                                    description |-> body.description]))

StorageDeleteProject ==
  \E id \in 1..MaxProjectId + 1 :
    /\ Called(deleteProject(Store, id))

\* the request req arrives and is answered
Http(req) ==
  /\ Handled(req, Route(req))
  /\ UNCHANGED drawingVars
  /\ UNCHANGED clientVars

HttpGetWindow ==
  \E param \in Params :
    /\ Http(Request("GET", "/api/windows/:id", param, NoBody))

HttpPostWindow ==
  \E body \in StoreBodies :
    /\ windowIdCounter <= MaxWindowId
    /\ Http(Request("POST", "/api/windows", <<>>, body))

HttpPutWindow ==
  \E param \in Params, body \in PutBodies :
    /\ Http(Request("PUT", "/api/windows/:id", param, body))

HttpDeleteWindow ==
  \E param \in Params :
    /\ Http(Request("DELETE", "/api/windows/:id", param, NoBody))

HttpGetProject ==
  \E param \in Params :
    /\ Http(Request("GET", "/api/projects/:id", param, NoBody))

HttpPostProject ==
  \E body \in ProjectBodies :
    /\ projectIdCounter <= MaxProjectId
    /\ Http(Request("POST", "/api/projects", <<>>, body))

HttpPutProject ==
  \E param \in Params, body \in ProjectBodies :
    /\ Http(Request("PUT", "/api/projects/:id", param, body))

HttpDeleteProject ==
  \E param \in Params :
    /\ Http(Request("DELETE", "/api/projects/:id", param, NoBody))

InitStore ==
  /\ win = defaultValues
  /\ looked = NoEntry
  /\ drawing = NoDrawing
  /\ pc = "props"
  /\ memo = NoMemo
  /\ renders = <<>>
  /\ InitStorage
  /\ InitClient

\* the methods of the storage object called in any order
NextStorage ==
  \/ StorageCreateWindow \/ StorageUpdateWindow \/ StorageDeleteWindow
  \/ StorageCreateProject \/ StorageDeleteProject

SpecStorage == InitStore /\ [][NextStorage]_vars

\* requests to the routes, one after the other
NextRoutes ==
  \/ HttpGetWindow \/ HttpPostWindow \/ HttpPutWindow \/ HttpDeleteWindow
  \/ HttpGetProject \/ HttpPostProject \/ HttpPutProject \/ HttpDeleteProject

SpecRoutes == InitStore /\ [][NextRoutes]_vars

(***************************************************************************)
(* The form flow: the user picks a stored window for editing, changes      *)
(* fields, submits and resets.  The page has no current project, a request *)
(* is answered before the user acts again, and the list of windows on the  *)
(* page is the stored one.                                                 *)
(***************************************************************************)
\* names and widths the user types: a width the form rejects among them
TypedNames == {"Hall", "Den"}

TypedWidths == {Num(200), Num(900)}

\* the useEffect on selectedWindow: the form takes the values of a selected
\* window, its id among them, and is left alone when none is selected
FormAfterSelecting(selected, values) ==
  IF selected.t = "object"
  THEN [id |-> Num(selected.v.id), projectId |-> Num(selected.v.projectId),
        name |-> selected.v.name, type |-> selected.v.type,
        width |-> Num(selected.v.width), height |-> Num(selected.v.height),
        glassType |-> selected.v.glassType]
  ELSE values

\* the label of the submit button
SubmitLabel == IF selectedWindow.t = "object" /\ selectedWindow.v.id # 0
               THEN "Update Window" ELSE "Add Window"

\* handleEditWindow: setSelectedWindow(window), then the effect
EditWindow ==
  \E k \in DOMAIN windows :
    /\ selectedWindow' = [t |-> "object", v |-> windows[k]]
    /\ form' = FormAfterSelecting(selectedWindow', form)
    /\ UNCHANGED <<exported, imported>>
    /\ UNCHANGED storageVars
    /\ UNCHANGED drawingVars

\* the user types a name and a width into the form
ChangeField ==
  \E n \in TypedNames, w \in TypedWidths :
    /\ form' = [form EXCEPT !.name = n, !.width = w]
    /\ UNCHANGED <<selectedWindow, exported, imported>>
    /\ UNCHANGED storageVars
    /\ UNCHANGED drawingVars

\* form.handleSubmit(onSave) with the form's values: the resolver validates,
\* handleSaveWindow sends the request, and onSuccess of the update mutation
\* sets the selected window to null; the effect then runs with null
SubmitFormValues ==
  /\ windowFormSchema(form)
  /\ LET req == handleSaveWindow(FormOutput(form))
         result == Route(req)
     IN  /\ req.method = "POST" => windowIdCounter <= MaxWindowId
         /\ Handled(req, result)
         /\ selectedWindow' =
              IF req.method = "PUT" /\ result.response.status = 200
              THEN NullWindow ELSE selectedWindow
  /\ form' = FormAfterSelecting(selectedWindow', form)
  /\ UNCHANGED <<exported, imported>>
  /\ UNCHANGED drawingVars

\* handleReset: form.reset(defaultValues), then onReset sets the selected
\* window to null
ResetForm ==
  /\ form' = defaultFormValues
  /\ selectedWindow' = NullWindow
  /\ UNCHANGED <<exported, imported>>
  /\ UNCHANGED storageVars
  /\ UNCHANGED drawingVars

NextForm == EditWindow \/ ChangeField \/ SubmitFormValues \/ ResetForm

SpecForm == InitStore /\ [][NextForm]_vars

(***************************************************************************)
(* Two requests at a time.  The handlers of PUT and DELETE                 *)
(* /api/windows/:id are async functions: each runs up to its next await,   *)
(* where the other may run.  A MemStorage method does its work when it is  *)
(* called, before the caller's await gives way.  A handler's record keeps  *)
(* its request, what getWindow returned to it and, once it has answered,   *)
(* its status; it stays until the next request of its route arrives.       *)
(***************************************************************************)
\* the windows the overlapping requests are about
RaceParams == { <<"1">>, <<"2">> }

\* no handler of the route h is between two awaits
Idle(h) == IF h \in DOMAIN inflight THEN inflight[h].pc = "answered" ELSE TRUE

\* the handler h has reached the position at
At(h, at) == h \in DOMAIN inflight /\ inflight[h].pc = at

\* the handler h moves to the position at, with what getWindow returned
Await(h, req, at, existing) ==
  /\ inflight' = MapSet(inflight, h, [pc |-> at, req |-> req,
                                      existing |-> existing, status |-> 0])
  /\ UNCHANGED <<request, response>>

\* the handler h answers its request
Respond(h, req, status, id) ==
  /\ inflight' = MapSet(inflight, h, [pc |-> "answered", req |-> req,
                                      existing |-> FALSE, status |-> status])
  /\ request' = req
  /\ response' = [status |-> status, id |-> id]

\* PUT, up to `await storage.getWindow(id)`
PutBegin ==
  \E param \in RaceParams, body \in StoreBodies :
    LET req == Request("PUT", "/api/windows/:id", param, body)
        id == parseInt(param)
    IN  /\ Idle("put")
        /\ IF ~insertWindowSchema(UpdateData(id.v, body))
           THEN Respond("put", req, 400, 0)
           ELSE Await("put", req, "getWindow", id.v \in DOMAIN windows)
        /\ Stored(Store)
        /\ UNCHANGED drawingVars
        /\ UNCHANGED clientVars

\* PUT, from the 404 check up to `await storage.updateWindow(result.data)`
PutUpdate ==
  /\ At("put", "getWindow")
  /\ LET req == inflight["put"].req
         id == parseInt(req.param).v
         data == UpdateData(id, req.body)
     IN  IF ~inflight["put"].existing
         THEN /\ Respond("put", req, 404, 0)
              /\ Stored(Store)
         ELSE /\ Await("put", req, "updateWindow", TRUE)
              /\ Stored(updateWindow(Store, StoredWindow(data.id.v, data)))
  /\ UNCHANGED drawingVars
  /\ UNCHANGED clientVars

\* PUT: res.json(updatedWindow)
PutRespond ==
  /\ At("put", "updateWindow")
  /\ Respond("put", inflight["put"].req, 200, parseInt(inflight["put"].req.param).v)
  /\ Stored(Store)
  /\ UNCHANGED drawingVars
  /\ UNCHANGED clientVars

\* DELETE, up to `await storage.getWindow(id)`
DeleteBegin ==
  \E param \in RaceParams :
    /\ Idle("delete")
    /\ Await("delete", Request("DELETE", "/api/windows/:id", param, NoBody),
             "getWindow", parseInt(param).v \in DOMAIN windows)
    /\ Stored(Store)
    /\ UNCHANGED drawingVars
    /\ UNCHANGED clientVars

\* DELETE, from the 404 check up to `await storage.deleteWindow(id)`
DeleteDelete ==
  /\ At("delete", "getWindow")
  /\ LET req == inflight["delete"].req
     IN  IF ~inflight["delete"].existing
         THEN /\ Respond("delete", req, 404, 0)
              /\ Stored(Store)
         ELSE /\ Await("delete", req, "deleteWindow", TRUE)
              /\ Stored(deleteWindow(Store, parseInt(req.param).v))
  /\ UNCHANGED drawingVars
  /\ UNCHANGED clientVars

\* DELETE: res.status(204).send()
DeleteRespond ==
  /\ At("delete", "deleteWindow")
  /\ Respond("delete", inflight["delete"].req, 204, 0)
  /\ Stored(Store)
  /\ UNCHANGED drawingVars
  /\ UNCHANGED clientVars

NextRace ==
  \/ PutBegin \/ PutUpdate \/ PutRespond
  \/ DeleteBegin \/ DeleteDelete \/ DeleteRespond
  \/ HttpPostWindow

SpecRace == InitStore /\ [][NextRace]_vars

(***************************************************************************)
(* The database storage (DatabaseStorage).  The variables windows and      *)
(* projects are the two tables, windowIdCounter the sequence of the serial *)
(* column windows.id; the tables start with the rows the in-memory storage *)
(* starts with.  Each statement sent to the database is one step, and the  *)
(* handlers of POST /api/windows and DELETE /api/projects/:id await each   *)
(* statement.  The tables declare no foreign key (shared/schema.ts) and    *)
(* the handlers open no transaction.                                       *)
(***************************************************************************)
\* bodies posted while a project is being deleted: for project 1 and 2,
\* and without the required projectId
DbBodies ==
  { [projectId |-> q, name |-> "Hall", type |-> "single", width |-> Num(900),
     height |-> Num(900), glassType |-> "Clear"] :
      q \in {Num(1), Num(2), UndefinedN} }

\* db.delete(windows).where(eq(windows.projectId, id))
DbDeleteWindowsOfProject(s, id) ==
  [s EXCEPT !.windows = MapDelete(s.windows,
                          {k \in DOMAIN s.windows : s.windows[k].projectId = id})]

\* db.delete(projects).where(eq(projects.id, id))
DbDeleteProjectRow(s, id) ==
  [s EXCEPT !.projects = MapDelete(s.projects, {id})]

\* POST /api/windows up to `await storage.createWindow(result.data)`; a
\* request that arrives before the deletion of a project has been answered
DbPostBegin ==
  \E body \in DbBodies :
    LET req == Request("POST", "/api/windows", <<>>, body)
    IN  /\ Idle("post")
        /\ ~At("deleteProject", "answered")
        /\ windowIdCounter <= MaxWindowId
        /\ IF ~insertWindowSchema(body)
           THEN Respond("post", req, 400, 0)
           ELSE Await("post", req, "createWindow", FALSE)
        /\ Stored(Store)
        /\ UNCHANGED drawingVars
        /\ UNCHANGED clientVars

\* db.insert(windows).values(insertWindow).returning() is executed: the row
\* takes the next value of the sequence, as a window of the in-memory
\* storage takes the value of its counter
DbPostInsert ==
  /\ At("post", "createWindow")
  /\ Await("post", inflight["post"].req, "inserted", TRUE)
  /\ Stored(createWindow(Store, inflight["post"].req.body))
  /\ UNCHANGED drawingVars
  /\ UNCHANGED clientVars

\* res.status(201).json(newWindow)
DbPostRespond ==
  /\ At("post", "inserted")
  /\ Respond("post", inflight["post"].req, 201, createdIds[Len(createdIds)])
  /\ Stored(Store)
  /\ UNCHANGED drawingVars
  /\ UNCHANGED clientVars

\* DELETE /api/projects/:id up to `await storage.getProject(id)`
DbDeleteProjectBegin ==
  \E param \in RaceParams :
    /\ Idle("deleteProject")
    /\ Await("deleteProject", Request("DELETE", "/api/projects/:id", param, NoBody),
             "getProject", parseInt(param).v \in DOMAIN projects)
    /\ Stored(Store)
    /\ UNCHANGED drawingVars
    /\ UNCHANGED clientVars

\* the 404 check, then the first statement of DatabaseStorage.deleteProject
DbDeleteProjectWindows ==
  /\ At("deleteProject", "getProject")
  /\ LET req == inflight["deleteProject"].req
     IN  IF ~inflight["deleteProject"].existing
         THEN /\ Respond("deleteProject", req, 404, 0)
              /\ Stored(Store)
         ELSE /\ Await("deleteProject", req, "deleteWindows", TRUE)
              /\ Stored(DbDeleteWindowsOfProject(Store, parseInt(req.param).v))
  /\ UNCHANGED drawingVars
  /\ UNCHANGED clientVars

\* the second statement of DatabaseStorage.deleteProject
DbDeleteProject ==
  /\ At("deleteProject", "deleteWindows")
  /\ LET req == inflight["deleteProject"].req
     IN  /\ Await("deleteProject", req, "deleteProject", TRUE)
         /\ Stored(DbDeleteProjectRow(Store, parseInt(req.param).v))
  /\ UNCHANGED drawingVars
  /\ UNCHANGED clientVars

\* deleteProject has completed: res.status(204).send()
DbDeleteProjectRespond ==
  /\ At("deleteProject", "deleteProject")
  /\ Respond("deleteProject", inflight["deleteProject"].req, 204, 0)
  /\ Stored(Store)
  /\ UNCHANGED drawingVars
  /\ UNCHANGED clientVars

NextDb ==
  \/ DbPostBegin \/ DbPostInsert \/ DbPostRespond
  \/ DbDeleteProjectBegin \/ DbDeleteProjectWindows
  \/ DbDeleteProject \/ DbDeleteProjectRespond

SpecDb == InitStore /\ [][NextDb]_vars

(***************************************************************************)
(* XML export and import of a project (ProjectImportExport).  A string is  *)
(* a sequence of characters.  The document is kept as its elements: the    *)
(* name attribute of <project> and, for each <window>, the text of each    *)
(* child element, both as the characters written into the file, that is    *)
(* after escapeXml and after the conversion of numbers and booleans to     *)
(* text.  The parser turns the five predefined entities back into their    *)
(* characters.  A window here carries every column of the table.           *)
(***************************************************************************)
\* the most windows in an exported project
MaxXmlWindows == 2

\* String.prototype.replace(/ch/g, by)
RECURSIVE ReplaceAll(_, _, _)
ReplaceAll(str, ch, by) ==
  IF str = <<>> THEN <<>>
  ELSE (IF Head(str) = ch THEN by ELSE <<Head(str)>>) \o ReplaceAll(Tail(str), ch, by)

escapeXml(unsafe) ==
  ReplaceAll(
    ReplaceAll(
      ReplaceAll(
        ReplaceAll(
          ReplaceAll(unsafe, "&", <<"&", "a", "m", "p", ";">>),
          "<", <<"&", "l", "t", ";">>),
        ">", <<"&", "g", "t", ";">>),
      "\"", <<"&", "q", "u", "o", "t", ";">>),
    "'", <<"&", "a", "p", "o", "s", ";">>)

\* the predefined entities of XML and the characters they stand for
Entities ==
  << [ref |-> <<"&", "a", "m", "p", ";">>, ch |-> "&"],
     [ref |-> <<"&", "l", "t", ";">>, ch |-> "<"],
     [ref |-> <<"&", "g", "t", ";">>, ch |-> ">"],
     [ref |-> <<"&", "q", "u", "o", "t", ";">>, ch |-> "\""],
     [ref |-> <<"&", "a", "p", "o", "s", ";">>, ch |-> "'"] >>

StartsWith(str, prefix) ==
  Len(prefix) <= Len(str) /\ SubSeq(str, 1, Len(prefix)) = prefix

\* the parser's reading of character data: entity references are replaced
\* by their characters, other characters are kept
RECURSIVE textContent(_)
textContent(str) ==
  IF str = <<>> THEN <<>>
  ELSE LET hits == {i \in DOMAIN Entities : StartsWith(str, Entities[i].ref)}
       IN  IF hits # {}
           THEN LET e == Entities[CHOOSE i \in hits : TRUE]
                IN  <<e.ch>> \o textContent(Drop(str, Len(e.ref) + 1))
           ELSE <<Head(str)>> \o textContent(Tail(str))

\* `${value}` of a boolean column, which may be null
BoolToString(val) ==
  IF val.t = "boolean"
  THEN (IF val.v THEN <<"t", "r", "u", "e">> ELSE <<"f", "a", "l", "s", "e">>)
  ELSE <<"n", "u", "l", "l">>

\* `${value || dflt}` of a number column: 0 and null give the default
NumberOr(val, dflt) ==
  NumberToString(IF val.t = "number" /\ val.v # 0 THEN val.v ELSE dflt)

\* `value || dflt` of a string
StringOr(str, dflt) == IF str = <<>> THEN dflt ELSE str

\* windowsToXml
windowsToXml(list, projectName) ==
  [ projectName |-> escapeXml(projectName),
    windows |->
      [ i \in DOMAIN list |->
          LET window == list[i]
          IN  [ id |-> NumberToString(window.id),
                projectId |-> NumberToString(window.projectId),
                name |-> escapeXml(window.name),
                type |-> escapeXml(window.type),
                width |-> NumberToString(window.width),
                height |-> NumberToString(window.height),
                glassType |-> escapeXml(window.glassType),
                hasGeorgianBars |-> BoolToString(window.hasGeorgianBars),
                georgianBarsHorizontal |-> NumberOr(window.georgianBarsHorizontal, 1),
                georgianBarsVertical |-> NumberOr(window.georgianBarsVertical, 1),
                openableCasements |->
                  escapeXml(StringOr(window.openableCasements, <<"l", "e", "f", "t">>)),
                transomHeight |-> NumberOr(window.transomHeight, 400),
                topCasementsOpenable |->
                  escapeXml(StringOr(window.topCasementsOpenable, <<"n", "o", "n", "e">>)),
                positionX |-> NumberOr(window.positionX, 0),
                positionY |-> NumberOr(window.positionY, 0) ] ] ]

\* getElementValue: element.textContent || defaultValue
getElementValue(text, defaultValue) == StringOr(textContent(text), defaultValue)

\* getBooleanValue: value === 'true'
getBooleanValue(text) ==
  getElementValue(text, <<"f", "a", "l", "s", "e">>) = <<"t", "r", "u", "e">>

\* getNumberValue: parseInt(value, 10), a number or NaN
getNumberValue(text, defaultValue) ==
  parseInt(getElementValue(text, NumberToString(defaultValue)))

\* xmlToWindows
xmlToWindows(xml) ==
  [ projectName |->
      StringOr(textContent(xml.projectName),
               <<"I", "m", "p", "o", "r", "t", "e", "d", " ",
                 "P", "r", "o", "j", "e", "c", "t">>),
    windows |->
      [ i \in DOMAIN xml.windows |->
          LET el == xml.windows[i]
          IN  [ projectId |-> getNumberValue(el.projectId, 1),
                name |-> getElementValue(el.name, <<>>),
                type |-> getElementValue(el.type, <<"s", "i", "n", "g", "l", "e">>),
                width |-> getNumberValue(el.width, 1000),
                height |-> getNumberValue(el.height, 1200),
                glassType |-> getElementValue(el.glassType, <<"c", "l", "e", "a", "r">>),
                hasGeorgianBars |-> getBooleanValue(el.hasGeorgianBars),
                georgianBarsHorizontal |-> getNumberValue(el.georgianBarsHorizontal, 1),
                georgianBarsVertical |-> getNumberValue(el.georgianBarsVertical, 1),
                openableCasements |->
                  getElementValue(el.openableCasements, <<"l", "e", "f", "t">>),
                transomHeight |-> getNumberValue(el.transomHeight, 400),
                topCasementsOpenable |->
                  getElementValue(el.topCasementsOpenable, <<"n", "o", "n", "e">>),
                positionX |-> getNumberValue(el.positionX, 0),
                positionY |-> getNumberValue(el.positionY, 0) ] ] ]

\* names with each of the characters & < > " ' and with the text of an
\* entity reference
XmlNames ==
  { <<"H", "a", "l", "l">>, <<"R", "&", "D">>, <<"<", "b", ">">>,
    <<"\"", "'">>, <<"&", "l", "t", ";">> }

\* windows as the form saves them: every field set, bar counts from 0 on
XmlWindows ==
  { [ id |-> 7, projectId |-> 1, name |-> n, type |-> <<"q", "u", "a", "d">>,
      width |-> 1800, height |-> 1200, glassType |-> <<"C", "l", "e", "a", "r">>,
      hasGeorgianBars |-> Bool(f), georgianBarsHorizontal |-> Num(h),
      georgianBarsVertical |-> Num(1),
      openableCasements |-> <<"b", "o", "t", "h">>,
      transomHeight |-> Num(th),
      topCasementsOpenable |-> <<"n", "o", "n", "e">>,
      positionX |-> Num(x), positionY |-> Num(0) ] :
      n \in XmlNames, f \in {TRUE}, h \in {0, 2}, th \in {650}, x \in {0, 120} }

\* the lists of at most MaxXmlWindows of them
XmlLists ==
  UNION { [1..n -> XmlWindows] : n \in 0..MaxXmlWindows }

\* handleExport, once: the project's windows go through windowsToXml
Export ==
  \E list \in XmlLists, name \in {<<"L", "o", "f", "t">>, <<"A", "&", "B">>} :
    /\ exported = NoExport
    /\ exported' = [windows |-> list, projectName |-> name,
                    xml |-> windowsToXml(list, name)]
    /\ imported' = NoImport
    /\ UNCHANGED <<selectedWindow, form>>
    /\ UNCHANGED storageVars
    /\ UNCHANGED drawingVars

\* handleImport with the text that was exported
Import ==
  /\ exported # NoExport
  /\ imported = NoImport
  /\ imported' = xmlToWindows(exported.xml)
  /\ UNCHANGED <<selectedWindow, form, exported>>
  /\ UNCHANGED storageVars
  /\ UNCHANGED drawingVars

NextXml == Export \/ Import

SpecXml == InitStore /\ [][NextXml]_vars

(***************************************************************************)
(* Vocabulary used by the properties.                                      *)
(***************************************************************************)
Rendered == pc = "rendered"

TransomTypeIds == {"single-transom", "double-transom", "triple-transom", "quad-transom"}

MultiPaneTypeIds ==
  {"double", "triple", "quad", "double-transom", "triple-transom", "quad-transom"}

\* the documented opening vocabulary
OpeningVocabulary == {"left", "right", "both", "none", "center-left", "center-right"}

\* width and height inside the catalog range of the window's own type
InCatalogRange(w) ==
  /\ w.type \in CatalogIds
  /\ LET e == windowTypes[FindIndex(windowTypes, w.type)]
     IN  /\ e.minWidth <= w.width /\ w.width <= e.maxWidth
         /\ e.minHeight <= w.height /\ w.height <= e.maxHeight

\* positions of the primitives of a class in a body
OfClass(body, cls) == {i \in DOMAIN body : body[i].cls = cls}

\* every dashed stroke is an opening indicator: the polylines of
\* renderHingeIndicator, the upper-band paths and the centre split line
Indicators(body) == {i \in DOMAIN body : body[i].dash # ""}

\* the indicators selected by openableCasements / by topCasementsOpenable
MainIndicators(body) == OfClass(body, "hinge-indicator") \cup OfClass(body, "center-split")
TopIndicators(body) == OfClass(body, "top-hinge-indicator")

Bars(body, axis) ==
  {i \in OfClass(body, "georgian-bar") : body[i].key = axis}

\* the window interior: the rectangle inside the frame inset
InteriorX(c) == c.frameInset
InteriorY(c) == c.frameInset
InteriorW(c) == c.svgWidth -- (c.frameInset ** I(2))
InteriorH(c) == c.svgHeight -- (c.frameInset ** I(2))

\* the horizontal transom bar: the mullion spanning the interior width
TransomBars(body, c) ==
  {i \in OfClass(body, "window-mullion") :
     body[i].x = InteriorX(c) /\ body[i].width = InteriorW(c)}

\* the casement rectangles below the transom bar
LowerCasements(body, bar) ==
  {i \in OfClass(body, "window-casement") : Lt(bar.y, body[i].y)}

Clamp(n, lo, hi) == IF n < lo THEN lo ELSE IF n > hi THEN hi ELSE n

(***************************************************************************)
(* C1.  getWindowTypeById returns the catalog entry with the given id when *)
(* there is one and the first entry ("single") otherwise; a window whose   *)
(* type is not in the catalog is drawn exactly as the same window with     *)
(* type "single".                                                          *)
(***************************************************************************)
C1_TypeLookupFallback ==
  /\ looked # NoEntry =>
       IF win.type \in CatalogIds
       THEN looked.id = win.type /\ looked \in {windowTypes[i] : i \in DOMAIN windowTypes}
       ELSE looked = windowTypes[1] /\ looked.id = "single"
  /\ Rendered /\ win.type \notin CatalogIds =>
       /\ drawing = WindowDrawing([win EXCEPT !.type = "single"])
       /\ drawing.body # <<>>

C1_Witness ==
  /\ Rendered
  /\ win.type = "nonexistent-type"
  /\ looked = windowTypes[1]
  /\ drawing.body # <<>>

(***************************************************************************)
(* C2.  Every catalog type has a rendering branch: a window of a catalog   *)
(* type with dimensions in that type's range is drawn with a non-empty     *)
(* body that contains the outer frame rectangle.                           *)
(***************************************************************************)
C2_EveryCatalogTypeRenders ==
  Rendered /\ InCatalogRange(win) =>
    /\ drawing.body # <<>>
    /\ \E i \in OfClass(drawing.body, "window-frame") :
         /\ drawing.body[i].tag = "rect"
         /\ drawing.body[i].width = Locals(win).svgWidth
         /\ drawing.body[i].height = Locals(win).svgHeight

(***************************************************************************)
(* C3.  For every transom type the upper band (from the top of the         *)
(* interior to the transom bar) is clamp(transomHeight, 0, height) times   *)
(* the scale factor high.                                                  *)
(***************************************************************************)
C3_TransomFollowsTransomHeight ==
  Rendered /\ win.type \in TransomTypeIds /\ win.transomHeight.t = "number" =>
    LET c == Locals(win)
        bars == TransomBars(drawing.body, c)
    IN  /\ bars # {}
        /\ \A i \in bars :
             drawing.body[i].y -- InteriorY(c) =
               I(Clamp(win.transomHeight.v, 0, win.height)) ** c.scaleFactor

(***************************************************************************)
(* C4.  For every transom type, upper band + transom bar thickness + lower *)
(* band (from the bar to the bottom edge of the lower casements) equals    *)
(* the interior height, svgHeight - 2 * frameInset.                        *)
(***************************************************************************)
C4_TransomBandsSumToInterior ==
  Rendered /\ win.type \in TransomTypeIds =>
    LET c == Locals(win)
        body == drawing.body
    IN  \A i \in TransomBars(body, c) :
          /\ LowerCasements(body, body[i]) # {}
          /\ \A j \in LowerCasements(body, body[i]) :
               LET upper == body[i].y -- InteriorY(c)
                   lower == (body[j].y ++ body[j].height)
                              -- (body[i].y ++ body[i].height)
               IN  (upper ++ body[i].height) ++ lower = InteriorH(c)

(***************************************************************************)
(* C5.  With hasGeorgianBars true and numeric counts h and v, the bar      *)
(* renderer emits exactly h horizontal and v vertical bars; the i-th bar   *)
(* is centred at offset paneDimension / (count + 1) * i from the pane      *)
(* origin, i = 1..count; a count of 0 emits no bar on that axis, and       *)
(* hasGeorgianBars false emits no bar at all.  (The pane every branch      *)
(* passes is the window interior; the property is stated for the types     *)
(* that reach the bar renderer.)                                           *)
(***************************************************************************)
BarsEvenlySpaced(body, axis, count, origin, extent) ==
  LET bs == Bars(body, axis)
      Centre(b) == IF axis = "h" THEN b.y ++ (b.height // I(2))
                                 ELSE b.x ++ (b.width // I(2))
  IN  /\ Cardinality(bs) = count
      /\ {body[i].idx : i \in bs} = 1..count
      /\ \A i \in bs :
           Centre(body[i]) -- origin = (extent // I(count + 1)) ** I(body[i].idx)

C5_GeorgianBarCountAndSpacing ==
  Rendered /\ drawing.body # <<>> =>
    LET c == Locals(win)
        body == drawing.body
    IN  IF ~Truthy(win.hasGeorgianBars)
        THEN OfClass(body, "georgian-bar") = {}
        ELSE /\ win.georgianBarsHorizontal.t = "number" =>
                  BarsEvenlySpaced(body, "h", win.georgianBarsHorizontal.v,
                                   InteriorY(c), InteriorH(c))
             /\ win.georgianBarsVertical.t = "number" =>
                  BarsEvenlySpaced(body, "v", win.georgianBarsVertical.v,
                                   InteriorX(c), InteriorW(c))

C5_Witness ==
  /\ Rendered
  /\ Truthy(win.hasGeorgianBars)
  /\ win.georgianBarsHorizontal = Num(2)
  /\ win.georgianBarsVertical = Num(1)
  /\ Cardinality(Bars(drawing.body, "h")) = 2
  /\ Cardinality(Bars(drawing.body, "v")) = 1

(***************************************************************************)
(* C6 (as claimed).  In a multi-pane window with hasGeorgianBars true each *)
(* pane (casement rectangle) individually contains h horizontal and v      *)
(* vertical bars lying within that pane's own bounds.                      *)
(***************************************************************************)
Within(b, p) ==
  /\ Leq(p.x, b.x) /\ Leq(b.x ++ b.width, p.x ++ p.width)
  /\ Leq(p.y, b.y) /\ Leq(b.y ++ b.height, p.y ++ p.height)

C7_AbsentCountMeansOneBar ==
  Rendered /\ drawing.body # <<>> /\ Truthy(win.hasGeorgianBars) =>
    /\ win.georgianBarsHorizontal.t # "number" =>
         Cardinality(Bars(drawing.body, "h")) = 1
    /\ win.georgianBarsVertical.t # "number" =>
         Cardinality(Bars(drawing.body, "v")) = 1

(***************************************************************************)
(* C8 (as claimed).  openableCasements = "none" yields zero hinge          *)
(* indicators, for every type and every value of the other fields.         *)
(***************************************************************************)
C8_Claimed_NoneDrawsNoIndicator ==
  Rendered /\ win.openableCasements = "none" => Indicators(drawing.body) = {}

(***************************************************************************)
(* C8 (amended).  openableCasements = "none" yields no indicator selected  *)
(* by openableCasements on any type; the only indicators left are the      *)
(* upper-band ones of a single-transom window whose topCasementsOpenable   *)
(* is left, right, both, center-left or center-right.                      *)
(***************************************************************************)
C8_NoneDrawsNoMainIndicator ==
  Rendered /\ win.openableCasements = "none" =>
    /\ MainIndicators(drawing.body) = {}
    /\ Indicators(drawing.body) # {} =>
         /\ win.type = "single-transom"
         /\ win.topCasementsOpenable \in OpeningVocabulary \ {"none"}
         /\ Indicators(drawing.body) = TopIndicators(drawing.body)

C8_Witness ==
  /\ Rendered
  /\ win.openableCasements = "none"
  /\ win.type = "single-transom"
  /\ win.topCasementsOpenable = "both"
  /\ MainIndicators(drawing.body) = {}
  /\ Cardinality(TopIndicators(drawing.body)) = 2

(***************************************************************************)
(* C9.  For the 2-pane and 4-pane types openableCasements = "both" yields  *)
(* exactly two hinge indicators: one hinged left on the leftmost pane, one *)
(* hinged right on the rightmost pane, mirror images of each other, and    *)
(* none on an inner pane.                                                  *)
(***************************************************************************)
PaneCount(type) == IF type \in {"quad", "quad-transom"} THEN 4 ELSE 2

PX(pt) == pt[1]
PY(pt) == pt[2]

\* apex on the left edge of the leftmost section, arms inside that section
HingedLeftOnLeftmost(p, c, n) ==
  /\ Len(p.points) = 3
  /\ PX(p.points[2]) = InteriorX(c)
  /\ PX(p.points[1]) = PX(p.points[3])
  /\ Lt(PX(p.points[2]), PX(p.points[1]))
  /\ Leq(PX(p.points[1]), InteriorX(c) ++ (InteriorW(c) // I(n)))

\* apex on the right edge of the rightmost section, arms inside that section
HingedRightOnRightmost(p, c, n) ==
  /\ Len(p.points) = 3
  /\ PX(p.points[2]) = InteriorX(c) ++ InteriorW(c)
  /\ PX(p.points[1]) = PX(p.points[3])
  /\ Lt(PX(p.points[1]), PX(p.points[2]))
  /\ Leq((InteriorX(c) ++ InteriorW(c)) -- (InteriorW(c) // I(n)), PX(p.points[1]))

Mirrored(p, q, c) ==
  \A k \in 1..3 :
    /\ PX(q.points[k]) = c.svgWidth -- PX(p.points[k])
    /\ PY(q.points[k]) = PY(p.points[k])

C9_BothDrawsTwoMirroredIndicators ==
  /\ Rendered
  /\ win.type \in {"double", "double-transom", "quad", "quad-transom"}
  /\ win.openableCasements = "both"
  => LET c == Locals(win)
         body == drawing.body
         n == PaneCount(win.type)
     IN  /\ Cardinality(Indicators(body)) = 2
         /\ \E l, r \in Indicators(body) :
              /\ l # r
              /\ HingedLeftOnLeftmost(body[l], c, n)
              /\ HingedRightOnRightmost(body[r], c, n)
              /\ Mirrored(body[l], body[r], c)

C9_Witness ==
  /\ Rendered
  /\ win.type = "quad"
  /\ win.openableCasements = "both"
  /\ Cardinality(Indicators(drawing.body)) = 2
  /\ Cardinality(OfClass(drawing.body, "window-casement")) = 4

(***************************************************************************)
(* C10 (as claimed).  An openableCasements or topCasementsOpenable value   *)
(* outside {left, right, both, none, center-left, center-right} produces   *)
(* no hinge indicator on any pane of any type.                             *)
(***************************************************************************)
C10_Claimed_MalformedValuesInert ==
  Rendered =>
    /\ win.openableCasements \notin OpeningVocabulary \cup {UndefinedS} =>
         MainIndicators(drawing.body) = {}
    /\ win.topCasementsOpenable \notin OpeningVocabulary \cup {UndefinedS} =>
         TopIndicators(drawing.body) = {}

(***************************************************************************)
(* C10 (amended).  The renderer also understands "center" (single-transom  *)
(* and double) and "outer" (quad and quad-transom) for openableCasements.  *)
(* Every other value outside the documented vocabulary, for either field,  *)
(* produces no hinge indicator for that field on any pane of any type.     *)
(***************************************************************************)
C10_UnknownValuesInert ==
  Rendered =>
    /\ win.openableCasements \notin
           OpeningVocabulary \cup {"center", "outer", UndefinedS} =>
         MainIndicators(drawing.body) = {}
    /\ win.openableCasements = "center"
         /\ win.type \notin {"single-transom", "double"} =>
         MainIndicators(drawing.body) = {}
    /\ win.openableCasements = "outer"
         /\ win.type \notin {"quad", "quad-transom"} =>
         MainIndicators(drawing.body) = {}
    /\ win.topCasementsOpenable \notin OpeningVocabulary \cup {UndefinedS} =>
         TopIndicators(drawing.body) = {}

C10_Witness ==
  /\ Rendered
  /\ win.type = "double"
  /\ win.openableCasements = "bogus"
  /\ win.topCasementsOpenable = "bogus"
  /\ drawing.body # <<>>
  /\ Indicators(drawing.body) = {}

(***************************************************************************)
(* C11.  For every transom type a topCasementsOpenable value naming a side *)
(* draws the corresponding indicator in the upper band (one for left or    *)
(* right, two for both), independently of the lower-band indicators        *)
(* selected by openableCasements; for the non-transom types the value of   *)
(* topCasementsOpenable never changes the output.  (Stated for a transom   *)
(* height below the window height, so that both bands exist.)              *)
(***************************************************************************)
\* the indicators lying entirely above the transom bar
UpperIndicators(body, c) ==
  {i \in Indicators(body) :
     /\ TransomBars(body, c) # {}
     /\ \A b \in TransomBars(body, c) :
          \A k \in DOMAIN body[i].points : Leq(PY(body[i].points[k]), body[b].y)}

\* the indicators lying entirely below the top of the transom bar
LowerIndicators(body, c) ==
  {i \in Indicators(body) :
     /\ TransomBars(body, c) # {}
     /\ \A b \in TransomBars(body, c) :
          \A k \in DOMAIN body[i].points : Leq(body[b].y, PY(body[i].points[k]))}

SidesNamed(value) ==
  CASE value \in {"left", "right"} -> 1
    [] value = "both" -> 2
    [] OTHER -> 0

C11_UpperBandOpening ==
  Rendered =>
    /\ win.type \in TransomTypeIds
         /\ win.topCasementsOpenable \in {"left", "right", "both"}
         /\ win.openableCasements \in {"left", "right", "both", "none"}
         /\ win.transomHeight.t = "number"
         /\ win.transomHeight.v < win.height =>
         LET c == Locals(win)
         IN  /\ Cardinality(UpperIndicators(drawing.body, c))
                  = SidesNamed(win.topCasementsOpenable)
             /\ Cardinality(LowerIndicators(drawing.body, c))
                  = SidesNamed(win.openableCasements)
    /\ win.type \in CatalogIds \ TransomTypeIds =>
         drawing = WindowDrawing([win EXCEPT !.topCasementsOpenable = "none"])

(***************************************************************************)
(* C12.  For a pane at (x, y) of size w by h a 'left' hinge indicator is   *)
(* the polyline (x+w, y), (x, y+h/2), (x+w, y+h), drawn from the right     *)
(* edge, and a 'right' hinge indicator is its mirror image (x, y),         *)
(* (x+w, y+h/2), (x, y+h).  Checked on the single casement, whose pane is  *)
(* the window interior, and as a shape on every hinge indicator of every   *)
(* type: first and last point on one vertical edge, the middle point at    *)
(* half height.                                                            *)
(***************************************************************************)
LeftHingeShape(x, y, w, h) ==
  << <<x ++ w, y>>, <<x, y ++ (h // I(2))>>, <<x ++ w, y ++ h>> >>

RightHingeShape(x, y, w, h) ==
  << <<x, y>>, <<x ++ w, y ++ (h // I(2))>>, <<x, y ++ h>> >>

HingeShapes(body) == {body[i].points : i \in OfClass(body, "hinge-indicator")}

C12_HingeIndicatorShape ==
  Rendered =>
    LET c == Locals(win)
        body == drawing.body
        x == InteriorX(c)
        y == InteriorY(c)
        w == InteriorW(c)
        h == InteriorH(c)
    IN  /\ c.windowConfig.id = "single" /\ win.openableCasements = "left" =>
             HingeShapes(body) = {LeftHingeShape(x, y, w, h)}
        /\ c.windowConfig.id = "single" /\ win.openableCasements = "right" =>
             HingeShapes(body) = {RightHingeShape(x, y, w, h)}
        /\ c.windowConfig.id = "single" /\ win.openableCasements = "both" =>
             HingeShapes(body) = {LeftHingeShape(x, y, w, h), RightHingeShape(x, y, w, h)}
        /\ \A i \in OfClass(body, "hinge-indicator") :
             LET p == body[i].points
             IN  /\ body[i].tag = "polyline"
                 /\ body[i].dash = "3,3"
                 /\ Len(p) = 3
                 /\ PX(p[1]) = PX(p[3])
                 /\ PY(p[2]) -- PY(p[1]) = PY(p[3]) -- PY(p[2])
                 /\ p \in { LeftHingeShape(PX(p[2]), PY(p[1]),
                                           PX(p[1]) -- PX(p[2]), PY(p[3]) -- PY(p[1])),
                            RightHingeShape(PX(p[1]), PY(p[1]),
                                            PX(p[2]) -- PX(p[1]), PY(p[3]) -- PY(p[1])) }

C12_Witness ==
  /\ Rendered
  /\ win.type = "single"
  /\ win.openableCasements = "right"
  /\ win.width = 900 /\ win.height = 800
  /\ HingeShapes(drawing.body) =
       { << <<I(11), I(11)>>, <<I(169), I(80)>>, <<I(11), I(149)>> >> }

(***************************************************************************)
(* C13.  For the N-pane types (N = 2, 3, 4 and their transom variants) the *)
(* drawing contains exactly N - 1 vertical mullions, centred at i/N of the *)
(* interior width for i in 1..N-1, and the panes (casement rectangles)     *)
(* between them all have equal width, N of them side by side in each band. *)
(***************************************************************************)
PanesAcross(type) ==
  CASE type \in {"double", "double-transom"} -> 2
    [] type \in {"triple", "triple-transom"} -> 3
    [] type \in {"quad", "quad-transom"} -> 4
    [] OTHER -> 1

BandsOf(type) == IF type \in TransomTypeIds THEN 2 ELSE 1

\* the mullions running from the top to the bottom of the interior
VerticalMullions(body, c) ==
  {i \in OfClass(body, "window-mullion") :
     body[i].y = InteriorY(c) /\ body[i].height = InteriorH(c)}

C13_PaneLayout ==
  Rendered /\ win.type \in MultiPaneTypeIds =>
    LET c == Locals(win)
        body == drawing.body
        n == PanesAcross(win.type)
        ms == VerticalMullions(body, c)
        panes == OfClass(body, "window-casement")
    IN  /\ Cardinality(ms) = n - 1
        /\ {body[i].x ++ (body[i].width // I(2)) : i \in ms}
             = {InteriorX(c) ++ ((InteriorW(c) // I(n)) ** I(k)) : k \in 1..(n - 1)}
        /\ Cardinality(panes) = n * BandsOf(win.type)
        /\ \A p, q \in panes : body[p].width = body[q].width

(***************************************************************************)
(* C14.  For all positive width and height the scale factor equals         *)
(* min(300 / width, 240 / height, 0.2); hence it never exceeds 0.2, and    *)
(* the scaled drawing (width * s and height * s, rounded) never exceeds    *)
(* 300 px in width or 240 px in height.                                    *)
(***************************************************************************)
C14_ScaleFactor ==
  Rendered /\ win.width > 0 /\ win.height > 0 =>
    LET s == scaleFactor(win.width, win.height)
        widthRatio == I(300) // I(win.width)
        heightRatio == I(240) // I(win.height)
        cap == <<1, 5>>
        scaledWidth == drawing.width -- I(extraWidthForDimensions)
        scaledHeight == (drawing.height -- I(extraHeightForDimensions))
                          -- I(extraHeightForLabel)
    IN  /\ Leq(s, widthRatio) /\ Leq(s, heightRatio) /\ Leq(s, cap)
        /\ s \in {widthRatio, heightRatio, cap}
        /\ Lt(Zero, s)
        /\ scaledWidth = MathRound(I(win.width) ** s)
        /\ scaledHeight = MathRound(I(win.height) ** s)
        /\ Leq(scaledWidth, I(300)) /\ Leq(scaledHeight, I(240))
        /\ Leq(Zero, scaledWidth) /\ Leq(Zero, scaledHeight)

\* a window bound by the display width: 3000 mm at scale 1/10 is 300 px
C14_Witness ==
  /\ Rendered
  /\ win.width = 3000 /\ win.height = 1200
  /\ scaleFactor(win.width, win.height) = <<1, 10>>
  /\ drawing.width = I(350) /\ drawing.height = I(210)

(***************************************************************************)
(* C15 (as claimed).  For two windows that differ only by a uniform factor *)
(* k applied to width and height: while the scale factor is at its 0.2 cap *)
(* for both, every coordinate and length of the second drawing is k times  *)
(* the corresponding one of the first; when the display bounds already     *)
(* determine the scale, both drawings have identical geometry.             *)
(***************************************************************************)
ScaleFactors == {2, 3}

ScaledBy(w, k) == [w EXCEPT !.width = k * w.width, !.height = k * w.height]

\* 0.2 is the smallest of the three candidates: 0.2 <= 300 / width and
\* 0.2 <= 240 / height
AtCap(w) ==
  /\ w.width > 0 /\ w.height > 0
  /\ w.width <= 5 * maxSvgWidth /\ w.height <= 5 * maxSvgHeight

\* a display bound is smaller than 0.2
Saturated(w) ==
  /\ w.width > 0 /\ w.height > 0
  /\ w.width > 5 * maxSvgWidth \/ w.height > 5 * maxSvgHeight

ScalePrim(p, k) ==
  [p EXCEPT !.x = @ ** I(k), !.y = @ ** I(k),
            !.width = @ ** I(k), !.height = @ ** I(k),
            !.points = [i \in DOMAIN @ |-> <<@[i][1] ** I(k), @[i][2] ** I(k)>>]]

ScaleBody(body, k) == [i \in DOMAIN body |-> ScalePrim(body[i], k)]

FrameOf(body) == body[CHOOSE i \in OfClass(body, "window-frame") : TRUE]

C16_Determinism ==
  /\ \A i, j \in DOMAIN renders :
       renders[i].props = renders[j].props => renders[i].output = renders[j].output
  /\ \A i \in DOMAIN renders :
       renders[i].output = WindowDrawing(renders[i].props)
  /\ Rendered => drawing = WindowDrawing(win)

\* the same record rendered first and third, a record of the same width and
\* another height in between
C16_Witness ==
  /\ Rendered
  /\ Len(renders) = 3
  /\ renders[1].props = renders[3].props
  /\ renders[2].props.width = renders[1].props.width
  /\ renders[2].props.height # renders[1].props.height
  /\ renders[2].output # renders[1].output
  /\ renders[3].output = renders[1].output
  /\ renders[3].output.body # <<>>

(***************************************************************************)
(* C17.  For a window whose type is a door id (door-fully-boarded,         *)
(* door-full-glazed, door-half-glazed, door-6-panel) the door panel-layout *)
(* branch is rendered, and the output is the same for every value of       *)
(* openableCasements and topCasementsOpenable: no hinge indicator is ever  *)
(* drawn.                                                                  *)
(***************************************************************************)
C17_DoorsIgnoreOpeningFields ==
  Rendered /\ win.type \in DoorTypeIds =>
    /\ drawing.body = renderDoor(Locals(win), win.type)
    /\ OfClass(drawing.body, "door-handle") # {}
    /\ Indicators(drawing.body) = {}
    /\ drawing = WindowDrawing([win EXCEPT !.openableCasements = "none",
                                           !.topCasementsOpenable = "none"])

(***************************************************************************)
(* C18.  The declared drawing area is (scaledWidth + 50) by                *)
(* (scaledHeight + 60 + 30) px, and every emitted primitive (frame,        *)
(* mullions, transom bar, casement and inner-border rectangles, bars,      *)
(* hinge indicators, dimension lines and labels) lies inside it, for every *)
(* input the form accepts (width and height 300..3000, transomHeight       *)
(* 200..1000).  A text is located by its anchor point.                     *)
(***************************************************************************)
FormAcceptsDimensions(w) ==
  /\ 300 <= w.width /\ w.width <= 3000
  /\ 300 <= w.height /\ w.height <= 3000
  /\ w.transomHeight.t = "number"
  /\ 200 <= w.transomHeight.v /\ w.transomHeight.v <= 1000

\* the points that span a primitive
Extent(p) ==
  CASE p.tag = "rect" -> {<<p.x, p.y>>, <<p.x ++ p.width, p.y ++ p.height>>}
    [] p.tag = "circle" ->
         {<<p.x -- p.width, p.y -- p.height>>, <<p.x ++ p.width, p.y ++ p.height>>}
    [] p.tag = "text" -> {<<p.x, p.y>>}
    [] OTHER -> {p.points[k] : k \in DOMAIN p.points}

\* the primitive, moved down by dy, lies in the area 0..w by 0..h
InArea(p, dy, w, h) ==
  \A pt \in Extent(p) :
    /\ Leq(Zero, PX(pt)) /\ Leq(PX(pt), w)
    /\ Leq(Zero, PY(pt) ++ dy) /\ Leq(PY(pt) ++ dy, h)

C18_BoundingBox ==
  Rendered /\ FormAcceptsDimensions(win) =>
    LET c == Locals(win)
    IN  /\ drawing.width = c.svgWidth ++ I(50)
        /\ drawing.height = (c.svgHeight ++ I(60)) ++ I(30)
        /\ \A i \in DOMAIN drawing.body :
             InArea(drawing.body[i], drawing.translateY, drawing.width, drawing.height)
        /\ \A i \in DOMAIN drawing.annotations :
             InArea(drawing.annotations[i], Zero, drawing.width, drawing.height)

(***************************************************************************)
(* C19 (as claimed).  There is no dimension guard in the rendering path:   *)
(* for width <= 0 or height <= 0 the render raises no error and completes, *)
(* emitting degenerate geometry (rectangles of zero or negative size).     *)
(***************************************************************************)
NonPositive(w) == w.width <= 0 \/ w.height <= 0

\* the rectangles of zero or negative size
DegenerateRects(body) ==
  {i \in DOMAIN body :
     /\ body[i].tag = "rect"
     /\ Leq(body[i].width, Zero) \/ Leq(body[i].height, Zero)}

\* the switch of renderWindow has a case for the window's catalog entry
HasBranch(w) == getWindowTypeById(w.type).id # "patio"

C19_Claimed_DegenerateGeometry ==
  Rendered /\ NonPositive(win) /\ HasBranch(win) =>
    /\ OfClass(drawing.body, "window-frame") # {}
    /\ DegenerateRects(drawing.body) # {}

(***************************************************************************)
(* C19 (amended).  There is no dimension guard in the rendering path: for  *)
(* width <= 0 or height <= 0 the render raises no error and completes,     *)
(* with the frame and the annotations emitted as for any other input (and  *)
(* nothing for patio, which has no branch).  The geometry is degenerate    *)
(* (rectangles of zero or negative size) when a dimension is zero or       *)
(* exactly one is negative.  When both are negative the scale factor is    *)
(* negative, the rounded sizes are positive again, and the frame is a      *)
(* non-degenerate rectangle at least 300 px wide and 240 px high, drawn    *)
(* with the minimum member thicknesses.                                    *)
(***************************************************************************)
C19_NoDimensionGuard ==
  Rendered /\ NonPositive(win) =>
    LET c == Locals(win)
        body == drawing.body
    IN  /\ Len(drawing.annotations) = 10
        /\ ~HasBranch(win) => body = <<>>
        /\ HasBranch(win) =>
             /\ OfClass(body, "window-frame") # {}
             /\ FrameOf(body).width = c.svgWidth
             /\ FrameOf(body).height = c.svgHeight
             /\ IF win.width < 0 /\ win.height < 0
                THEN /\ Lt(c.scaleFactor, Zero)
                     /\ Leq(I(300), FrameOf(body).width)
                     /\ Leq(I(240), FrameOf(body).height)
                     /\ FrameOf(body) \notin {body[i] : i \in DegenerateRects(body)}
                     /\ c.frameInset = I(5)
                ELSE DegenerateRects(body) # {}

\* a window 750 mm wide and 0 mm high: the frame is 150 x 0 px
C19_Witness ==
  /\ Rendered
  /\ win.type = "single" /\ win.width = 750 /\ win.height = 0
  /\ FrameOf(drawing.body).width = I(150)
  /\ FrameOf(drawing.body).height = Zero
  /\ DegenerateRects(drawing.body) # {}

(***************************************************************************)
(* C20.  Every window accepted for saving, by the form and by POST and PUT *)
(* /api/windows, has its width within [minWidth, maxWidth] and its height  *)
(* within [minHeight, maxHeight] of the catalog entry of its type.         *)
(***************************************************************************)
InRangeOfType(w) ==
  LET e == getWindowTypeById(w.type)
  IN  /\ e.minWidth <= w.width /\ w.width <= e.maxWidth
      /\ e.minHeight <= w.height /\ w.height <= e.maxHeight

C20_DimensionRangePerType ==
  \A id \in DOMAIN windows : InRangeOfType(windows[id])

(***************************************************************************)
(* C21.  Window ids are unique and never reused: the stored windows have   *)
(* pairwise distinct ids, and every id returned by createWindow is         *)
(* strictly greater than every id it returned before, whatever has been    *)
(* updated or deleted in between.                                          *)
(***************************************************************************)
C21_WindowIdsUniqueIncreasing ==
  /\ \A j, k \in DOMAIN windows : j # k => windows[j].id # windows[k].id
  /\ \A i, j \in DOMAIN createdIds : i < j => createdIds[i] < createdIds[j]

\* the two sample windows have been deleted and a window that createWindow
\* has stored since then under a third id is there
C21_Witness ==
  /\ Len(createdIds) > 2
  /\ DOMAIN windows \cap {1, 2} = {}
  /\ createdIds[3] \in DOMAIN windows
  /\ request = NoRequest

(***************************************************************************)
(* C22.  Cascading delete: when DELETE /api/projects/:id has answered 204  *)
(* for project p, and so deleteProject(p) has completed, project p is      *)
(* absent and no stored window has projectId p, while every other project  *)
(* and every window of another project is as it was, and nothing has been  *)
(* added.                                                                  *)
(***************************************************************************)
IsRequest(req, method, path) == req.method = method /\ req.path = path

C22_CascadingDelete ==
  [][ (IsRequest(request', "DELETE", "/api/projects/:id") /\ response'.status = 204)
      => LET p == parseInt(request'.param).v
         IN  /\ p \in DOMAIN projects
             /\ p \notin DOMAIN projects'
             /\ \A k \in DOMAIN windows' : windows'[k].projectId # p
             /\ DOMAIN projects' = DOMAIN projects \ {p}
             /\ \A q \in DOMAIN projects' : projects'[q] = projects[q]
             /\ DOMAIN windows' =
                  {k \in DOMAIN windows : windows[k].projectId # p}
             /\ \A k \in DOMAIN windows' : windows'[k] = windows[k] ]_vars

\* project 1 has just been deleted, its sample window 1 with it; project 2
\* and a window of project 2 are there
C22_Witness ==
  /\ IsRequest(request, "DELETE", "/api/projects/:id")
  /\ request.param = <<"1">>
  /\ response.status = 204
  /\ 1 \notin DOMAIN windows
  /\ 2 \in DOMAIN projects
  /\ \E k \in DOMAIN windows : windows[k].projectId = 2

(***************************************************************************)
(* C23.  Referential integrity: in every state the requests to the routes  *)
(* lead to, the projectId of each stored window is the id of a stored      *)
(* project.                                                                *)
(***************************************************************************)
C23_ReferentialIntegrity ==
  \A k \in DOMAIN windows : windows[k].projectId \in DOMAIN projects

(***************************************************************************)
(* C24 (as claimed).  For GET, PUT and DELETE on /api/windows/:id and      *)
(* /api/projects/:id: a path id that does not parse to a number yields     *)
(* 400, a numeric id with no stored record yields 404, a body failing      *)
(* validation yields 400, and in each of these cases the stored windows    *)
(* and projects are left as they were.                                     *)
(***************************************************************************)
ItemRoute(req) ==
  /\ req.path \in {"/api/windows/:id", "/api/projects/:id"}
  /\ req.method \in {"GET", "PUT", "DELETE"}

\* the records the route of req looks its id up in
RecordsOf(req) == IF req.path = "/api/windows/:id" THEN windows ELSE projects

NotANumber(req) == parseInt(req.param).t = "NaN"

NoRecord(req) ==
  /\ parseInt(req.param).t = "number"
  /\ parseInt(req.param).v \notin DOMAIN RecordsOf(req)

InvalidBody(req) ==
  /\ req.method = "PUT"
  /\ IF req.path = "/api/windows/:id"
     THEN ~insertWindowSchema(req.body)
     ELSE NoName(req.body)

StorageUnchanged ==
  UNCHANGED <<windows, windowIdCounter, projects, projectIdCounter, createdIds>>

C24_Claimed_RouteErrors ==
  [][ ItemRoute(request')
      => /\ NotANumber(request') => response'.status = 400
         /\ NoRecord(request') => response'.status = 404
         /\ InvalidBody(request') => response'.status = 400
         /\ (NotANumber(request') \/ NoRecord(request') \/ InvalidBody(request'))
              => StorageUnchanged ]_vars

(***************************************************************************)
(* C24.  As above, except that the body of a PUT is validated before the   *)
(* record is looked up: a numeric id with no stored record yields 404 when *)
(* the request has no body or a valid one, and 400 when its body fails     *)
(* validation.                                                             *)
(***************************************************************************)
C24_RouteErrors ==
  [][ ItemRoute(request')
      => /\ NotANumber(request') => response'.status = 400
         /\ (NoRecord(request') /\ ~InvalidBody(request')) => response'.status = 404
         /\ InvalidBody(request') => response'.status = 400
         /\ (NotANumber(request') \/ NoRecord(request') \/ InvalidBody(request'))
              => StorageUnchanged ]_vars

\* a PUT for window 3, which is not stored, with a body that lacks the
\* projectId has been answered 400
C24_Witness ==
  /\ IsRequest(request, "PUT", "/api/windows/:id")
  /\ request.param = <<"3">>
  /\ 3 \notin DOMAIN windows
  /\ ~insertWindowSchema(request.body)
  /\ response.status = 400

(***************************************************************************)
(* C25.  Update keeps the id: when PUT /api/windows/:id has answered 200,  *)
(* the record stored under the path id holds the values of the body and    *)
(* the path id, also when the body carries another id; every other window  *)
(* is as it was and no window has been added.                              *)
(***************************************************************************)
C25_UpdateKeepsId ==
  [][ (IsRequest(request', "PUT", "/api/windows/:id") /\ response'.status = 200)
      => LET id == parseInt(request'.param).v
             body == request'.body
         IN  /\ id \in DOMAIN windows
             /\ DOMAIN windows' = DOMAIN windows
             /\ windows'[id].id = id
             /\ response'.id = id
             /\ windows'[id].name = body.name
             /\ windows'[id].projectId = body.projectId.v
             /\ \A k \in DOMAIN windows \ {id} : windows'[k] = windows[k]
             /\ windowIdCounter' = windowIdCounter ]_vars

\* window 1 has been updated with a body that carries the id of window 2,
\* and window 2 is the sample window it was
C25_Witness ==
  /\ IsRequest(request, "PUT", "/api/windows/:id")
  /\ request.param = <<"1">>
  /\ response.status = 200
  /\ "id" \in DOMAIN request.body
  /\ request.body.id = Num(2)
  /\ windows[1].name = request.body.name
  /\ 2 \in DOMAIN windows
  /\ windows[2] = SampleWindows[2]

(***************************************************************************)
(* C26.  Add versus update in the form flow: a submission made while no    *)
(* window is selected for editing, the submit button reading "Add Window", *)
(* sends POST /api/windows and leaves every window that was stored as it   *)
(* was; so the submission that follows a successful save of an edited      *)
(* window does not overwrite that window.                                  *)
(***************************************************************************)
\* a request is sent and answered in this step
Submits == request' # request \/ response' # response \/ windows' # windows

C26_AddVersusUpdate ==
  [][ (SubmitLabel = "Add Window" /\ Submits)
      => /\ IsRequest(request', "POST", "/api/windows")
         /\ \A k \in DOMAIN windows :
              k \in DOMAIN windows' /\ windows'[k] = windows[k] ]_vars

(***************************************************************************)
(* C27.  Delete is not undone by a racing update: once DELETE              *)
(* /api/windows/:id has answered 204, and until the next DELETE arrives,   *)
(* no window with that id is stored, however the steps of a PUT for the    *)
(* same id fall between those of the DELETE.                               *)
(***************************************************************************)
C27_DeleteNotUndone ==
  (At("delete", "answered") /\ inflight["delete"].status = 204)
    => parseInt(inflight["delete"].req.param).v \notin DOMAIN windows

(***************************************************************************)
(* C28.  Project deletion is atomic with respect to window creation: once  *)
(* DatabaseStorage.deleteProject(p) has completed (DELETE                  *)
(* /api/projects/p has answered 204), no window with projectId p is        *)
(* stored, wherever the insert of a createWindow for project p that was    *)
(* requested meanwhile fell among the statements of deleteProject.         *)
(***************************************************************************)
C28_DeleteProjectAtomic ==
  (At("deleteProject", "answered") /\ inflight["deleteProject"].status = 204)
    => \A k \in DOMAIN windows :
         windows[k].projectId # parseInt(inflight["deleteProject"].req.param).v

(***************************************************************************)
(* C29.  Non-degenerate geometry for valid input: for a catalog type, a    *)
(* width and a height inside the range of that type and a transom height   *)
(* the form accepts (200 to 1000), every rectangle of the drawing has a    *)
(* width and a height above zero.                                          *)
(***************************************************************************)
C29_NonDegenerateForValidInput ==
  (/\ Rendered
   /\ InCatalogRange(win)
   /\ win.transomHeight.t = "number"
   /\ 200 <= win.transomHeight.v /\ win.transomHeight.v <= 1000)
    => DegenerateRects(drawing.body) = {}

(***************************************************************************)
(* C30.  XML export/import round trip: xmlToWindows(windowsToXml(windows,  *)
(* name)) returns the same project name and the same windows in the same   *)
(* order, every field but id equal to the original: bar counts of 0,       *)
(* transomHeight, positions, and names with the characters & < > " '.      *)
(***************************************************************************)
\* the fields of a window other than id, as the import returns them
WithoutId(window) ==
  [ projectId |-> Num(window.projectId), name |-> window.name,
    type |-> window.type,
    width |-> Num(window.width), height |-> Num(window.height),
    glassType |-> window.glassType,
    hasGeorgianBars |-> Truthy(window.hasGeorgianBars),
    georgianBarsHorizontal |-> window.georgianBarsHorizontal,
    georgianBarsVertical |-> window.georgianBarsVertical,
    openableCasements |-> window.openableCasements,
    transomHeight |-> window.transomHeight,
    topCasementsOpenable |-> window.topCasementsOpenable,
    positionX |-> window.positionX, positionY |-> window.positionY ]

C30_XmlRoundTrip ==
  imported # NoImport
    => /\ imported.projectName = exported.projectName
       /\ Len(imported.windows) = Len(exported.windows)
       /\ \A i \in DOMAIN exported.windows :
            imported.windows[i] = WithoutId(exported.windows[i])

====
